---- MODULE Spec2Model ----
(***************************************************************************)
(* Headless job runner of the backend (backend/codex/codex_headless.py)    *)
(* and its HTTP adapter (backend/api/routes/codex.py).                     *)
(*                                                                         *)
(* The runner lives on one asyncio event loop: code between two awaits     *)
(* that really suspend runs atomically.  No `async with self._lock` body   *)
(* contains an await, so the lock is never contended and acquiring it      *)
(* never suspends.  The suspension points of _run_job are                  *)
(*   create_subprocess_exec, readline (per reader), process.wait           *)
(* and every action below is the code between two of them.  stdin.drain    *)
(* suspends only when the write failed (it then yields once and raises)    *)
(* or when the task overflows the pipe buffer; the first is DrainRaise,    *)
(* the second adds no state another action does not reach.                 *)
(*                                                                         *)
(* Optional values (Python None) are sequences: None is <<>>, a value x    *)
(* is <<x>>.                                                               *)
(***************************************************************************)
EXTENDS Integers, Sequences, FiniteSets, TLC

\* ----------------------------------------------------------------- bounds
\* number of create_job calls the clients issue
MaxJobs == 2
\* capacity of the three tails of a job (max_output_lines), scaled down
MaxOutputLines == 2
\* number of lines the children write to stdout and stderr together
MaxLines == 3
\* number of times the clock advances
MaxClock == 2
\* number of lines the child writes while the clock runs
MaxTimedLines == 1
\* number of lines of a patch
MaxDiffLines == 2
\* number of times git apply is run
MaxApplies == 1
\* number of rollout files in the sessions directory
MaxRollouts == 2
\* number of records after the meta line of a rollout file
MaxRecords == 3
\* number of lines of history.jsonl
MaxHistoryLines == 3
\* number of messages handed to render_transcript
MaxMessages == 3
\* largest max_chars handed to render_transcript
MaxChars == 31
\* units of the task that fit between stdin.write and the child: the pipe
\* and the transport's buffer up to its high-water mark
StdinRoom == 1
\* units of output that fit between the child and read_stream: the pipe
\* and the StreamReader's buffer
StreamRoom == 1
\* longest task, in units
MaxTask == 2
\* longest program of a child before it reads the rest of its stdin
MaxProgram == 3
\* most members of an event object
MaxPairs == 2
\* most elements of an event array
MaxElems == 2

None == <<>>
Some(x) == <<x>>

\* the universe uuid4 draws job ids from
JobIds == 1..MaxJobs

\* return codes process.wait() can deliver: success and failure
ExitCodes == {0, 1}

Streams == {"stdout", "stderr"}

VARIABLES
    jobs,      \* runner._jobs: job id -> CodexJob
    pc,        \* position of the supervisor task _run_job(job_id)
    readers,   \* streams whose read_stream coroutine is still running
    child,     \* the OS process of a job: "none", "alive", "exited"
    signals,   \* number of send_signal(SIGTERM) calls on the child of a job
    resp,      \* the HTTP response produced by the step just taken
    budget,    \* what the environment still does: create_job calls, output lines
    now,       \* the clock read by _utc_now
    emitted,   \* emitted[j][s]: the lines readline has returned on stream s
    artifacts, \* Orchestrator._job_to_insights and _job_to_proposal
    finalizer, \* position of the finalizer task of a job
    files,     \* the files written so far: path -> content
    repo,      \* the paths of the working tree that git apply has changed
    git_runs,  \* number of times git apply was run
    pipes      \* pipes[j]: the three pipes between the supervisor and the child of job j

\* the working tree
gitVars == <<repo, git_runs>>

\* the state of the orchestrator
orchVars == <<artifacts, finalizer, files, gitVars>>

vars == <<jobs, pc, readers, child, signals, resp, budget, now, emitted, orchVars, pipes>>

\* datetime.now(timezone.utc)
_utc_now == now

\* dict assignment d[k] = v
Put(d, k, v) == [x \in DOMAIN d \cup {k} |-> IF x = k THEN v ELSE d[x]]

\* list(xs)[-n:] for n >= 1
LastN(xs, n) ==
    IF Len(xs) <= n THEN xs ELSE SubSeq(xs, Len(xs) - n + 1, Len(xs))

\* ------------------------------------------------------------- requests
\* CodexExecRequest with the defaults of the route; a workdir is a path,
\* kept as [absolute, path]
DefaultRequest ==
    [task |-> "say hi", workdir |-> None, sandbox |-> "workspace-write",
     approval |-> "never", model |-> None, oss |-> FALSE,
     local_provider |-> None, profile |-> None, config_overrides |-> <<>>,
     output_schema_path |-> None, skip_git_repo_check |-> FALSE,
     max_output_lines |-> MaxOutputLines, resume_session_id |-> None]

\* the bodies POST /codex/exec is called with
ExecRequests == {DefaultRequest}

\* the arguments create_job is called with: each option left out, or given
CommandRequests ==
    {[DefaultRequest EXCEPT
          !.workdir = workdir, !.model = model, !.oss = oss,
          !.local_provider = local_provider, !.profile = profile,
          !.config_overrides = config_overrides,
          !.output_schema_path = output_schema_path,
          !.skip_git_repo_check = skip_git_repo_check,
          !.resume_session_id = resume_session_id] :
        workdir \in {None, Some([path |-> "sub", absolute |-> FALSE])},
        model \in {None, Some(""), Some("o3")},
        oss \in BOOLEAN,
        local_provider \in {None, Some("ollama")},
        profile \in {None, Some("dev")},
        config_overrides \in {<<>>, <<"a=1">>, <<"a=1", "b=2">>},
        output_schema_path \in {None, Some("/s.json")},
        skip_git_repo_check \in BOOLEAN,
        resume_session_id \in {None, Some("s1")}}

\* find_repo_root(Path.cwd()) and resolve_codex_home(repo_root): fixed for
\* the life of the process
RepoRoot == "/repo"
CodexHome == "/home/.codex"

_resolve_workdir(repo_root, workdir) ==
    IF workdir = None \/ workdir[1].path = "" THEN repo_root
    ELSE IF workdir[1].absolute THEN workdir[1].path
    ELSE repo_root \o "/" \o workdir[1].path

\* an optional string that is truthy in Python (neither None nor "")
Truthy(opt) == opt # None /\ opt # Some("")

\* the argv if the resume branch returned before the two flags were added
_build_commandResumeNoFlags(approval, sandbox, workdir, last_message_path, model, oss, local_provider, profile, config_overrides, output_schema_path, skip_git_repo_check, resume_session_id) ==
    LET overrides[i \in 0..Len(config_overrides)] ==
            IF i = 0 THEN <<>>
            ELSE overrides[i - 1] \o <<"-c", config_overrides[i]>>
        head == <<"codex", "--no-alt-screen">>
                \o <<"--ask-for-approval", approval>>
                \o <<"--sandbox", sandbox>>
                \o (IF Truthy(model) THEN <<"--model", model[1]>> ELSE <<>>)
                \o (IF oss THEN <<"--oss">> ELSE <<>>)
                \o (IF Truthy(local_provider)
                    THEN <<"--local-provider", local_provider[1]>> ELSE <<>>)
                \o (IF Truthy(profile) THEN <<"--profile", profile[1]>> ELSE <<>>)
                \o overrides[Len(config_overrides)]
        flags == (IF Truthy(output_schema_path)
                  THEN <<"--output-schema", output_schema_path[1]>> ELSE <<>>)
                 \o (IF skip_git_repo_check
                     THEN <<"--skip-git-repo-check">> ELSE <<>>)
    IN  IF Truthy(resume_session_id)
        THEN head
             \o <<"exec", "resume", "--json", "-C", workdir, "-o", last_message_path>>
             \o <<resume_session_id[1], "-">>
        ELSE head
             \o <<"exec", "--json", "-C", workdir, "-o", last_message_path>>
             \o flags \o <<"-">>

_build_command(approval, sandbox, workdir, last_message_path, model, oss, local_provider, profile, config_overrides, output_schema_path, skip_git_repo_check, resume_session_id) ==
    LET overrides[i \in 0..Len(config_overrides)] ==
            IF i = 0 THEN <<>>
            ELSE overrides[i - 1] \o <<"-c", config_overrides[i]>>
        head == <<"codex", "--no-alt-screen">>
                \o <<"--ask-for-approval", approval>>
                \o <<"--sandbox", sandbox>>
                \o (IF Truthy(model) THEN <<"--model", model[1]>> ELSE <<>>)
                \o (IF oss THEN <<"--oss">> ELSE <<>>)
                \o (IF Truthy(local_provider)
                    THEN <<"--local-provider", local_provider[1]>> ELSE <<>>)
                \o (IF Truthy(profile) THEN <<"--profile", profile[1]>> ELSE <<>>)
                \o overrides[Len(config_overrides)]
        flags == (IF Truthy(output_schema_path)
                  THEN <<"--output-schema", output_schema_path[1]>> ELSE <<>>)
                 \o (IF skip_git_repo_check
                     THEN <<"--skip-git-repo-check">> ELSE <<>>)
    IN  IF Truthy(resume_session_id)
        THEN head
             \o <<"exec", "resume", "--json", "-C", workdir, "-o", last_message_path>>
             \o flags \o <<resume_session_id[1], "-">>
        ELSE head
             \o <<"exec", "--json", "-C", workdir, "-o", last_message_path>>
             \o flags \o <<"-">>

\* ------------------------------------------------------------------ jobs
\* uuid4 replaced by an id generator that can repeat itself
uuid4Reused == CHOOSE i \in JobIds : \A k \in JobIds : i <= k

\* uuid4(): an id no earlier call returned; which one is immaterial, so the
\* least unused id of the universe is taken
uuid4 == CHOOSE i \in JobIds :
            /\ i \notin DOMAIN jobs
            /\ \A k \in JobIds \ DOMAIN jobs : i <= k

\* the dataclass CodexJob as create_job constructs it
CodexJob(job_id, req) ==
    LET job_dir == CodexHome \o "/jobs/" \o ToString(job_id)
        last_message_path == job_dir \o "/last_message.txt"
    IN  [id |-> job_id,
         task |-> req.task,
         command |-> _build_command(
             req.approval, req.sandbox,
             _resolve_workdir(RepoRoot, req.workdir), last_message_path,
             req.model, req.oss, req.local_provider, req.profile,
             req.config_overrides, req.output_schema_path,
             req.skip_git_repo_check, req.resume_session_id),
         last_message_path |-> last_message_path,
         created_at |-> _utc_now,
         started_at |-> None,
         finished_at |-> None,
         status |-> "queued",
         returncode |-> None,
         task_id |-> None,
         maxlen |-> req.max_output_lines,
         stdout_lines |-> <<>>,
         stderr_lines |-> <<>>,
         events |-> <<>>,
         _process |-> None]

\* create_job without `self._jobs[job_id] = job`
create_jobUnregistered(req) ==
    LET job == CodexJob(uuid4, req)
    IN  [ret |-> job,
         jobs |-> jobs,
         pc |-> [pc EXCEPT ![job.id] = "created"]]

\* runner.create_job: the job returned, the registry and the supervisor tasks
\* after the call (asyncio.create_task only schedules _run_job)
create_job(req) ==
    LET job == CodexJob(uuid4, req)
    IN  [ret |-> job,
         jobs |-> Put(jobs, job.id, job),
         pc |-> [pc EXCEPT ![job.id] = "created"]]

\* runner.get_job: the registered job or None
get_job(job_id) ==
    IF job_id \in DOMAIN jobs THEN Some(jobs[job_id]) ELSE None

\* cancel_job without the test of job.status
cancel_jobAnyStatus(job_id) ==
    IF job_id \notin DOMAIN jobs
    THEN [ret |-> FALSE, jobs |-> jobs, signals |-> signals]
    ELSE IF jobs[job_id]._process = None
    THEN [ret |-> FALSE, jobs |-> jobs, signals |-> signals]
    ELSE [ret |-> TRUE,
          jobs |-> [jobs EXCEPT ![job_id].status = "canceled"],
          signals |-> [signals EXCEPT ![job_id] = @ + 1]]

\* cancel_job without the test of job._process
cancel_jobNoHandle(job_id) ==
    IF job_id \notin DOMAIN jobs
    THEN [ret |-> FALSE, jobs |-> jobs, signals |-> signals]
    ELSE IF jobs[job_id].status \notin {"queued", "running"}
    THEN [ret |-> FALSE, jobs |-> jobs, signals |-> signals]
    ELSE [ret |-> TRUE,
          jobs |-> [jobs EXCEPT ![job_id].status = "canceled"],
          signals |-> [signals EXCEPT ![job_id] = @ + 1]]

\* cancel_job with "canceled" among the statuses it lets through
cancel_jobRepeated(job_id) ==
    IF job_id \notin DOMAIN jobs
    THEN [ret |-> FALSE, jobs |-> jobs, signals |-> signals]
    ELSE IF jobs[job_id]._process = None
            \/ jobs[job_id].status \notin {"queued", "running", "canceled"}
    THEN [ret |-> FALSE, jobs |-> jobs, signals |-> signals]
    ELSE [ret |-> TRUE,
          jobs |-> [jobs EXCEPT ![job_id].status = "canceled"],
          signals |-> [signals EXCEPT ![job_id] = @ + 1]]

\* runner.cancel_job: the value returned, the registry and the signals after
cancel_job(job_id) ==
    IF job_id \notin DOMAIN jobs
    THEN [ret |-> FALSE, jobs |-> jobs, signals |-> signals]
    ELSE IF jobs[job_id]._process = None
            \/ jobs[job_id].status \notin {"queued", "running"}
    THEN [ret |-> FALSE, jobs |-> jobs, signals |-> signals]
    ELSE [ret |-> TRUE,
          jobs |-> [jobs EXCEPT ![job_id].status = "canceled"],
          signals |-> [signals EXCEPT ![job_id] = @ + 1]]

\* ---------------------------------------------------------------- output
\* JSON values: [t |-> "str", s], [t |-> "num", n], [t |-> "arr", xs] and
\* [t |-> "obj", kv] with kv the members <<[k, v], ...>> in document order
\* (the iteration order of the dict json.loads builds)
JStr(s) == [t |-> "str", s |-> s]
JNum(n) == [t |-> "num", n |-> n]
JArr(xs) == [t |-> "arr", xs |-> xs]
JObj(kv) == [t |-> "obj", kv |-> kv]
KV(k, v) == [k |-> k, v |-> v]
JNull == [t |-> "null"]

\* the lines (newline stripped) a child writes to stdout
StdoutLines ==
    {"{\"type\":\"noop\"}",
     "{\"task_id\":\"t1\"}",
     "{\"task_id\":\" \",\"msg\":{\"n\":1,\"taskId\":\" t2 \"}}",
     "[{\"taskID\":\"t3\"}]",
     "Reading prompt from stdin..."}

\* the lines a child writes to stderr
StderrLines == {"{\"task_id\":\"t9\"}", "warning: slow"}

\* the lines of the journal files. Meta*: session_meta records with and
\* without id, cwd and timestamp. Msg*: response_item messages with a
\* timestamp, without one, with one before 1970, of a role that is not asked
\* for, without text, with a tied timestamp. Hist*: lines of history.jsonl,
\* entries, a row without the fields, a ts that is a numeral in a string, no
\* ts, a ts that is a word, an array. NotUtf8: a line whose bytes are not
\* UTF-8
JournalLine ==
    [MetaA |-> "{\"type\":\"session_meta\",\"payload\":{\"id\":\"a\",\"cwd\":\"/repo\",\"originator\":\"cli\",\"timestamp\":\"2026-02-05T10:00:00.000Z\"}}",
     MetaB |-> "{\"type\":\"session_meta\",\"payload\":{\"id\":\"b\",\"cwd\":\"/repo/sub\",\"timestamp\":\"2026-02-05T10:01:00Z\"}}",
     MetaC |-> "{\"type\":\"session_meta\",\"payload\":{\"id\":\"c\",\"cwd\":\"/other\",\"timestamp\":\"2026-02-05T10:02:00+00:00\"}}",
     MetaD |-> "{\"type\":\"session_meta\",\"payload\":{\"id\":\"d\"}}",
     MetaE |-> "{\"type\":\"session_meta\",\"payload\":{\"id\":\"e\",\"cwd\":\"/repo\",\"timestamp\":\"1969-12-31T23:59:59Z\"}}",
     MetaF |-> "{\"type\":\"session_meta\",\"payload\":{\"id\":\"f\",\"cwd\":\"/repo/../other\",\"timestamp\":\"yesterday\"}}",
     MetaG |-> "{\"type\":\"session_meta\",\"payload\":{\"id\":\"g\",\"cwd\":\"/repo-b\",\"timestamp\":\"2026-02-05T10:00:00.000Z\"}}",
     MetaNoId |-> "{\"type\":\"session_meta\",\"payload\":{\"cwd\":\"/repo\"}}",
     MsgUser1 |-> "{\"timestamp\":\"2026-02-05T10:01:00Z\",\"type\":\"response_item\",\"payload\":{\"type\":\"message\",\"role\":\"user\",\"content\":[{\"type\":\"input_text\",\"text\":\"Question\"}]}}",
     MsgAssistant |-> "{\"timestamp\":\"2026-02-05T10:00:00.000Z\",\"type\":\"response_item\",\"payload\":{\"type\":\"message\",\"role\":\"assistant\",\"phase\":\"final\",\"content\":[{\"type\":\"input_text\",\"text\":\"Answer\"}]}}",
     MsgUserNoTime |-> "{\"type\":\"response_item\",\"payload\":{\"type\":\"message\",\"role\":\"user\",\"content\":[{\"type\":\"input_text\",\"text\":\"hello\"},{\"type\":\"input_text\",\"text\":\" there\"}]}}",
     MsgUserOld |-> "{\"timestamp\":\"1969-12-31T23:59:59Z\",\"type\":\"response_item\",\"payload\":{\"type\":\"message\",\"role\":\"user\",\"content\":[{\"type\":\"input_text\",\"text\":\"old\"}]}}",
     MsgTool |-> "{\"timestamp\":\"2026-02-05T10:00:00.000Z\",\"type\":\"response_item\",\"payload\":{\"type\":\"message\",\"role\":\"tool\",\"content\":[{\"type\":\"input_text\",\"text\":\"ran\"}]}}",
     MsgEmpty |-> "{\"timestamp\":\"2026-02-05T10:00:00.000Z\",\"type\":\"response_item\",\"payload\":{\"type\":\"message\",\"role\":\"user\",\"content\":[{\"type\":\"image\"},{\"type\":\"input_text\",\"text\":\"\"}]}}",
     MsgUserTie |-> "{\"timestamp\":\"2026-02-05T10:00:00.000Z\",\"type\":\"response_item\",\"payload\":{\"type\":\"message\",\"role\":\"user\",\"content\":[{\"type\":\"input_text\",\"text\":\"tie\"}]}}",
     HistS1 |-> "{\"session_id\":\"s1\",\"ts\":10,\"text\":\"hello\"}",
     HistS2 |-> "{\"session_id\":\"s2\",\"ts\":20,\"text\":\"world\"}",
     HistS3 |-> "{\"session_id\":\"s3\",\"ts\":5,\"text\":\"first\"}",
     HistBad |-> "{\"bad\":\"row\"}",
     HistTextTs |-> "{\"session_id\":\"s4\",\"ts\":\"12\",\"text\":\"twelve\"}",
     HistNoTs |-> "{\"session_id\":\"s5\",\"text\":\"no ts\"}",
     HistWordTs |-> "{\"session_id\":\"s6\",\"ts\":\"soon\",\"text\":\"word\"}",
     HistArray |-> "[1]",
     NotUtf8 |-> "\\xff"]

\* json.loads on the lines above and on the last messages below: Some(value), or None for JSONDecodeError
json_loads(text) ==
    CASE text = "{\"type\":\"noop\"}" ->
             Some(JObj(<<KV("type", JStr("noop"))>>))
      [] text = "{\"task_id\":\"t1\"}" ->
             Some(JObj(<<KV("task_id", JStr("t1"))>>))
      [] text = "{\"task_id\":\" \",\"msg\":{\"n\":1,\"taskId\":\" t2 \"}}" ->
             Some(JObj(<<KV("task_id", JStr(" ")),
                         KV("msg", JObj(<<KV("n", JNum(1)),
                                          KV("taskId", JStr(" t2 "))>>))>>))
      [] text = "[{\"taskID\":\"t3\"}]" ->
             Some(JArr(<<JObj(<<KV("taskID", JStr("t3"))>>)>>))
      [] text = "{\"task_id\":\"t9\"}" ->
             Some(JObj(<<KV("task_id", JStr("t9"))>>))
      [] text = "[1]" -> Some(JArr(<<JNum(1)>>))
      [] text = "{\"insights_markdown\":\" # Tips \"}" ->
             Some(JObj(<<KV("insights_markdown", JStr(" # Tips "))>>))
      [] text = "{\"insights_markdown\":\" \"}" ->
             Some(JObj(<<KV("insights_markdown", JStr(" "))>>))
      [] text = "{\"diff\":\" \"}" -> Some(JObj(<<KV("diff", JStr(" "))>>))
      [] text = "{\"diff\":\"--- a/AGENTS.md\\n+++ b/AGENTS.md\\n\",\"summary\":\"s\"}" ->
             Some(JObj(<<KV("diff", JStr("--- a/AGENTS.md\n+++ b/AGENTS.md\n")),
                         KV("summary", JStr("s"))>>))
      [] text = JournalLine.MetaA -> Some(JObj(<<KV("type", JStr("session_meta")), KV("payload", JObj(<<KV("id", JStr("a")), KV("cwd", JStr("/repo")), KV("originator", JStr("cli")), KV("timestamp", JStr("2026-02-05T10:00:00.000Z"))>>))>>))
      [] text = JournalLine.MetaB -> Some(JObj(<<KV("type", JStr("session_meta")), KV("payload", JObj(<<KV("id", JStr("b")), KV("cwd", JStr("/repo/sub")), KV("timestamp", JStr("2026-02-05T10:01:00Z"))>>))>>))
      [] text = JournalLine.MetaC -> Some(JObj(<<KV("type", JStr("session_meta")), KV("payload", JObj(<<KV("id", JStr("c")), KV("cwd", JStr("/other")), KV("timestamp", JStr("2026-02-05T10:02:00+00:00"))>>))>>))
      [] text = JournalLine.MetaD -> Some(JObj(<<KV("type", JStr("session_meta")), KV("payload", JObj(<<KV("id", JStr("d"))>>))>>))
      [] text = JournalLine.MetaE -> Some(JObj(<<KV("type", JStr("session_meta")), KV("payload", JObj(<<KV("id", JStr("e")), KV("cwd", JStr("/repo")), KV("timestamp", JStr("1969-12-31T23:59:59Z"))>>))>>))
      [] text = JournalLine.MetaF -> Some(JObj(<<KV("type", JStr("session_meta")), KV("payload", JObj(<<KV("id", JStr("f")), KV("cwd", JStr("/repo/../other")), KV("timestamp", JStr("yesterday"))>>))>>))
      [] text = JournalLine.MetaG -> Some(JObj(<<KV("type", JStr("session_meta")), KV("payload", JObj(<<KV("id", JStr("g")), KV("cwd", JStr("/repo-b")), KV("timestamp", JStr("2026-02-05T10:00:00.000Z"))>>))>>))
      [] text = JournalLine.MetaNoId -> Some(JObj(<<KV("type", JStr("session_meta")), KV("payload", JObj(<<KV("cwd", JStr("/repo"))>>))>>))
      [] text = JournalLine.MsgUser1 -> Some(JObj(<<KV("timestamp", JStr("2026-02-05T10:01:00Z")), KV("type", JStr("response_item")), KV("payload", JObj(<<KV("type", JStr("message")), KV("role", JStr("user")), KV("content", JArr(<<JObj(<<KV("type", JStr("input_text")), KV("text", JStr("Question"))>>)>>))>>))>>))
      [] text = JournalLine.MsgAssistant -> Some(JObj(<<KV("timestamp", JStr("2026-02-05T10:00:00.000Z")), KV("type", JStr("response_item")), KV("payload", JObj(<<KV("type", JStr("message")), KV("role", JStr("assistant")), KV("phase", JStr("final")), KV("content", JArr(<<JObj(<<KV("type", JStr("input_text")), KV("text", JStr("Answer"))>>)>>))>>))>>))
      [] text = JournalLine.MsgUserNoTime -> Some(JObj(<<KV("type", JStr("response_item")), KV("payload", JObj(<<KV("type", JStr("message")), KV("role", JStr("user")), KV("content", JArr(<<JObj(<<KV("type", JStr("input_text")), KV("text", JStr("hello"))>>), JObj(<<KV("type", JStr("input_text")), KV("text", JStr(" there"))>>)>>))>>))>>))
      [] text = JournalLine.MsgUserOld -> Some(JObj(<<KV("timestamp", JStr("1969-12-31T23:59:59Z")), KV("type", JStr("response_item")), KV("payload", JObj(<<KV("type", JStr("message")), KV("role", JStr("user")), KV("content", JArr(<<JObj(<<KV("type", JStr("input_text")), KV("text", JStr("old"))>>)>>))>>))>>))
      [] text = JournalLine.MsgTool -> Some(JObj(<<KV("timestamp", JStr("2026-02-05T10:00:00.000Z")), KV("type", JStr("response_item")), KV("payload", JObj(<<KV("type", JStr("message")), KV("role", JStr("tool")), KV("content", JArr(<<JObj(<<KV("type", JStr("input_text")), KV("text", JStr("ran"))>>)>>))>>))>>))
      [] text = JournalLine.MsgEmpty -> Some(JObj(<<KV("timestamp", JStr("2026-02-05T10:00:00.000Z")), KV("type", JStr("response_item")), KV("payload", JObj(<<KV("type", JStr("message")), KV("role", JStr("user")), KV("content", JArr(<<JObj(<<KV("type", JStr("image"))>>), JObj(<<KV("type", JStr("input_text")), KV("text", JStr(""))>>)>>))>>))>>))
      [] text = JournalLine.MsgUserTie -> Some(JObj(<<KV("timestamp", JStr("2026-02-05T10:00:00.000Z")), KV("type", JStr("response_item")), KV("payload", JObj(<<KV("type", JStr("message")), KV("role", JStr("user")), KV("content", JArr(<<JObj(<<KV("type", JStr("input_text")), KV("text", JStr("tie"))>>)>>))>>))>>))
      [] text = JournalLine.HistS1 -> Some(JObj(<<KV("session_id", JStr("s1")), KV("ts", JNum(10)), KV("text", JStr("hello"))>>))
      [] text = JournalLine.HistS2 -> Some(JObj(<<KV("session_id", JStr("s2")), KV("ts", JNum(20)), KV("text", JStr("world"))>>))
      [] text = JournalLine.HistS3 -> Some(JObj(<<KV("session_id", JStr("s3")), KV("ts", JNum(5)), KV("text", JStr("first"))>>))
      [] text = JournalLine.HistBad -> Some(JObj(<<KV("bad", JStr("row"))>>))
      [] text = JournalLine.HistTextTs -> Some(JObj(<<KV("session_id", JStr("s4")), KV("ts", JStr("12")), KV("text", JStr("twelve"))>>))
      [] text = JournalLine.HistNoTs -> Some(JObj(<<KV("session_id", JStr("s5")), KV("text", JStr("no ts"))>>))
      [] text = JournalLine.HistWordTs -> Some(JObj(<<KV("session_id", JStr("s6")), KV("ts", JStr("soon")), KV("text", JStr("word"))>>))
      [] OTHER -> None

\* str.strip() on the strings above
strip(s) ==
    CASE s = " " -> ""
      [] s = " t2 " -> "t2"
      [] s = " tidy up " -> "tidy up"
      [] s = " # Tips " -> "# Tips"
      [] OTHER -> s

\* dict.get(key): the value of the last member named key, or None
DictGet(kv, key) ==
    LET hits == {i \in 1..Len(kv) : kv[i].k = key}
    IN  IF hits = {} THEN None
        ELSE Some(kv[CHOOSE i \in hits : \A h \in hits : h <= i].v)

\* first truthy result of f over xs[i..], None if there is none
RECURSIVE _extract_task_id(_)
RECURSIVE FirstTaskId(_, _)
FirstTaskId(values, i) ==
    IF i > Len(values) THEN None
    ELSE LET task_id == _extract_task_id(values[i])
         IN  IF task_id # None THEN task_id ELSE FirstTaskId(values, i + 1)

\* the keys _extract_task_id tries, in its order
TaskIdKeys == <<"task_id", "taskId", "taskID">>

RECURSIVE FirstKey(_, _)
FirstKey(kv, i) ==
    IF i > Len(TaskIdKeys) THEN None
    ELSE LET value == DictGet(kv, TaskIdKeys[i])
         IN  IF value # None /\ value[1].t = "str" /\ strip(value[1].s) # ""
             THEN Some(strip(value[1].s))
             ELSE FirstKey(kv, i + 1)

\* _extract_task_id with the two loops of the dict branch exchanged
_extract_task_idNestedFirst(event) ==
    IF event.t = "obj"
    THEN LET nested == FirstTaskId([i \in 1..Len(event.kv) |-> event.kv[i].v], 1)
         IN  IF nested # None THEN nested ELSE FirstKey(event.kv, 1)
    ELSE IF event.t = "arr"
    THEN FirstTaskId(event.xs, 1)
    ELSE None

_extract_task_id(event) ==
    IF event.t = "obj"
    THEN LET direct == FirstKey(event.kv, 1)
         IN  IF direct # None THEN direct
             ELSE FirstTaskId([i \in 1..Len(event.kv) |-> event.kv[i].v], 1)
    ELSE IF event.t = "arr"
    THEN FirstTaskId(event.xs, 1)
    ELSE None

\* a call of _extract_task_id on the event drawn at the start
ExtractTaskId ==
    /\ resp.op = "call"
    /\ resp' = [op |-> "_extract_task_id", event |-> resp.event, ret |-> _extract_task_id(resp.event)]
    /\ UNCHANGED <<jobs, pc, readers, child, signals, budget, now, emitted, orchVars, pipes>>

\* a deque that never drops an item
DequeAppendUnbounded(xs, x, maxlen) == Append(xs, x)

\* deque(maxlen=n).append(x)
DequeAppend(xs, x, maxlen) ==
    IF maxlen = 0 THEN <<>>
    ELSE IF Len(xs) >= maxlen THEN Append(Tail(xs), x)
    ELSE Append(xs, x)

\* ------------------------------------------------------------ supervisor
\* the response of a step that answers no HTTP request
NoResponse == [op |-> "none"]

\* _run_job up to its first await without "job.started_at = _utc_now()"
RunJobStartUnstamped(j) ==
    /\ pc[j] = "created"
    /\ IF j \notin DOMAIN jobs \/ jobs[j].status # "queued"
       THEN /\ pc' = [pc EXCEPT ![j] = "done"]
            /\ UNCHANGED jobs
       ELSE /\ jobs' = [jobs EXCEPT ![j].status = "running"]
            /\ pc' = [pc EXCEPT ![j] = "spawn"]
    /\ resp' = NoResponse
    /\ UNCHANGED <<readers, child, signals, budget, now, emitted>>
    /\ UNCHANGED <<orchVars, pipes>>

\* _run_job up to its first await: the re-check under the lock and the
\* transition to running
RunJobStart(j) ==
    /\ pc[j] = "created"
    /\ IF j \notin DOMAIN jobs \/ jobs[j].status # "queued"
       THEN /\ pc' = [pc EXCEPT ![j] = "done"]
            /\ UNCHANGED jobs
       ELSE /\ jobs' = [jobs EXCEPT ![j].status = "running",
                                    ![j].started_at = Some(_utc_now)]
            /\ pc' = [pc EXCEPT ![j] = "spawn"]
    /\ resp' = NoResponse
    /\ UNCHANGED <<readers, child, signals, budget, now, emitted>>
    /\ UNCHANGED <<orchVars, pipes>>

\* create_subprocess_exec returned: the handle is recorded under the lock,
\* the task is written to stdin, stdin is closed and gather starts both
\* readers, which await their first line
SpawnOk(j) ==
    /\ pc[j] = "spawn"
    /\ child' = [child EXCEPT ![j] = "alive"]
    /\ jobs' = [jobs EXCEPT ![j]._process = Some(j)]
    /\ pc' = [pc EXCEPT ![j] = "gather"]
    /\ readers' = [readers EXCEPT ![j] = Streams]
    /\ resp' = NoResponse
    /\ UNCHANGED <<signals, budget, now, emitted>>
    /\ UNCHANGED <<orchVars, pipes>>

\* create_subprocess_exec raised (no codex binary, no permission, fork
\* failure): nothing catches it, the task ends with the exception
SpawnFail(j) ==
    /\ pc[j] = "spawn"
    /\ pc' = [pc EXCEPT ![j] = "raised"]
    /\ resp' = NoResponse
    /\ UNCHANGED <<jobs, readers, child, signals, budget, now, emitted>>
    /\ UNCHANGED <<orchVars, pipes>>

\* create_subprocess_exec returned and the handle is recorded, but the child
\* is gone before it reads its stdin: the write fails and stdin.drain()
\* raises ConnectionResetError, which ends the task
DrainRaise(j) ==
    /\ pc[j] = "spawn"
    /\ child' = [child EXCEPT ![j] = "exited"]
    /\ jobs' = [jobs EXCEPT ![j]._process = Some(j)]
    /\ pc' = [pc EXCEPT ![j] = "raised"]
    /\ resp' = NoResponse
    /\ UNCHANGED <<readers, signals, budget, now, emitted>>
    /\ UNCHANGED <<orchVars, pipes>>

\* read_stream that parses the lines of both streams
ReadLineParsesStderr(j, s, text) ==
    /\ s \in readers[j]
    /\ budget.lines > 0
    /\ LET job == jobs[j]
           parsed == json_loads(text)
           is_event == parsed # None /\ parsed[1].t = "obj"
       IN  jobs' = [jobs EXCEPT
               ![j].stdout_lines =
                   IF s = "stdout" THEN DequeAppend(@, text, job.maxlen) ELSE @,
               ![j].stderr_lines =
                   IF s = "stderr" THEN DequeAppend(@, text, job.maxlen) ELSE @,
               ![j].events =
                   IF is_event THEN DequeAppend(@, parsed[1], job.maxlen) ELSE @,
               ![j].task_id =
                   IF is_event /\ (@ = None \/ @ = Some(""))
                   THEN _extract_task_id(parsed[1]) ELSE @]
    /\ emitted' = [emitted EXCEPT ![j][s] = Append(@, text)]
    /\ budget' = [budget EXCEPT !.lines = @ - 1]
    /\ resp' = NoResponse
    /\ UNCHANGED <<pc, readers, child, signals, now>>
    /\ UNCHANGED <<orchVars, pipes>>

\* read_stream without the test "if not job.task_id"
ReadLineOverwritesTaskId(j, s, text) ==
    /\ s \in readers[j]
    /\ budget.lines > 0
    /\ LET job == jobs[j]
           parsed == json_loads(text)
           is_event == s = "stdout" /\ parsed # None /\ parsed[1].t = "obj"
       IN  jobs' = [jobs EXCEPT
               ![j].stdout_lines =
                   IF s = "stdout" THEN DequeAppend(@, text, job.maxlen) ELSE @,
               ![j].stderr_lines =
                   IF s = "stderr" THEN DequeAppend(@, text, job.maxlen) ELSE @,
               ![j].events =
                   IF is_event THEN DequeAppend(@, parsed[1], job.maxlen) ELSE @,
               ![j].task_id =
                   IF is_event THEN _extract_task_id(parsed[1]) ELSE @]
    /\ emitted' = [emitted EXCEPT ![j][s] = Append(@, text)]
    /\ budget' = [budget EXCEPT !.lines = @ - 1]
    /\ resp' = NoResponse
    /\ UNCHANGED <<pc, readers, child, signals, now>>
    /\ UNCHANGED <<orchVars, pipes>>

\* read_stream: readline returned a line; it is appended to the sink and,
\* on stdout, parsed; a JSON object is appended to events and gives the
\* task id if the job has none yet
ReadLine(j, s, text) ==
    /\ s \in readers[j]
    /\ budget.lines > 0
    /\ LET job == jobs[j]
           parsed == json_loads(text)
           is_event == s = "stdout" /\ parsed # None /\ parsed[1].t = "obj"
       IN  jobs' = [jobs EXCEPT
               ![j].stdout_lines =
                   IF s = "stdout" THEN DequeAppend(@, text, job.maxlen) ELSE @,
               ![j].stderr_lines =
                   IF s = "stderr" THEN DequeAppend(@, text, job.maxlen) ELSE @,
               ![j].events =
                   IF is_event THEN DequeAppend(@, parsed[1], job.maxlen) ELSE @,
               ![j].task_id =
                   IF is_event /\ (@ = None \/ @ = Some(""))
                   THEN _extract_task_id(parsed[1]) ELSE @]
    /\ emitted' = [emitted EXCEPT ![j][s] = Append(@, text)]
    /\ budget' = [budget EXCEPT !.lines = @ - 1]
    /\ resp' = NoResponse
    /\ UNCHANGED <<pc, readers, child, signals, now>>
    /\ UNCHANGED <<orchVars, pipes>>

\* read_stream: readline returned b"", the reader returns; once both have
\* returned gather returns and the supervisor awaits process.wait().  The
\* child keeps stdout and stderr open until it exits.
ReadEOF(j, s) ==
    /\ s \in readers[j]
    /\ child[j] = "exited"
    /\ readers' = [readers EXCEPT ![j] = @ \ {s}]
    /\ pc' = IF pc[j] = "gather" /\ readers[j] = {s}
             THEN [pc EXCEPT ![j] = "wait"] ELSE pc
    /\ resp' = NoResponse
    /\ UNCHANGED <<jobs, child, signals, budget, now, emitted>>
    /\ UNCHANGED <<orchVars, pipes>>

\* read_stream: readline raised (ValueError on a line longer than the
\* StreamReader limit): gather re-raises in the supervisor, which ends; the
\* other reader is not cancelled and goes on
ReadRaise(j, s) ==
    /\ s \in readers[j]
    /\ readers' = [readers EXCEPT ![j] = @ \ {s}]
    /\ pc' = IF pc[j] = "gather" THEN [pc EXCEPT ![j] = "raised"] ELSE pc
    /\ resp' = NoResponse
    /\ UNCHANGED <<jobs, child, signals, budget, now, emitted>>
    /\ UNCHANGED <<orchVars, pipes>>

\* the child process terminates (by itself or on a signal)
ChildExit(j) ==
    /\ child[j] = "alive"
    /\ child' = [child EXCEPT ![j] = "exited"]
    /\ resp' = NoResponse
    /\ UNCHANGED <<jobs, pc, readers, signals, budget, now, emitted>>
    /\ UNCHANGED <<orchVars, pipes>>

\* the last block of _run_job without `if job.status == "canceled": return`
RecordExitOverwrite(j, returncode) ==
    /\ pc[j] = "wait"
    /\ child[j] = "exited"
    /\ jobs' = [jobs EXCEPT
                  ![j].returncode = Some(returncode),
                  ![j].finished_at = Some(_utc_now),
                  ![j].status = IF returncode = 0 THEN "succeeded" ELSE "failed"]
    /\ pc' = [pc EXCEPT ![j] = "done"]
    /\ resp' = NoResponse
    /\ UNCHANGED <<readers, child, signals, budget, now, emitted>>
    /\ UNCHANGED <<orchVars, pipes>>

\* the last block of _run_job with `job.returncode = returncode or None`
RecordExitFalsy(j, returncode) ==
    /\ pc[j] = "wait"
    /\ child[j] = "exited"
    /\ jobs' = [jobs EXCEPT
                  ![j].returncode = IF returncode = 0 THEN None
                                    ELSE Some(returncode),
                  ![j].finished_at = Some(_utc_now),
                  ![j].status = IF @ = "canceled" THEN "canceled"
                                ELSE IF returncode = 0 THEN "succeeded"
                                ELSE "failed"]
    /\ pc' = [pc EXCEPT ![j] = "done"]
    /\ resp' = NoResponse
    /\ UNCHANGED <<readers, child, signals, budget, now, emitted>>
    /\ UNCHANGED <<orchVars, pipes>>

\* the last block of _run_job with `"succeeded" if returncode is not None`
RecordExitAlwaysSucceeded(j, returncode) ==
    /\ pc[j] = "wait"
    /\ child[j] = "exited"
    /\ jobs' = [jobs EXCEPT
                  ![j].returncode = Some(returncode),
                  ![j].finished_at = Some(_utc_now),
                  ![j].status = IF @ = "canceled" THEN "canceled"
                                ELSE "succeeded"]
    /\ pc' = [pc EXCEPT ![j] = "done"]
    /\ resp' = NoResponse
    /\ UNCHANGED <<readers, child, signals, budget, now, emitted>>
    /\ UNCHANGED <<orchVars, pipes>>

\* a supervisor that does not wait for gather before its last block
RecordExitBeforeEOF(j, returncode) ==
    /\ pc[j] \in {"gather", "wait"}
    /\ child[j] = "exited"
    /\ jobs' = [jobs EXCEPT
                  ![j].returncode = Some(returncode),
                  ![j].finished_at = Some(_utc_now),
                  ![j].status = IF @ = "canceled" THEN "canceled"
                                ELSE IF returncode = 0 THEN "succeeded"
                                ELSE "failed"]
    /\ pc' = [pc EXCEPT ![j] = "done"]
    /\ resp' = NoResponse
    /\ UNCHANGED <<readers, child, signals, budget, now, emitted>>
    /\ UNCHANGED <<orchVars, pipes>>

\* process.wait() returned returncode: the last block of _run_job
RecordExit(j, returncode) ==
    /\ pc[j] = "wait"
    /\ child[j] = "exited"
    /\ jobs' = [jobs EXCEPT
                  ![j].returncode = Some(returncode),
                  ![j].finished_at = Some(_utc_now),
                  ![j].status = IF @ = "canceled" THEN "canceled"
                                ELSE IF returncode = 0 THEN "succeeded"
                                ELSE "failed"]
    /\ pc' = [pc EXCEPT ![j] = "done"]
    /\ resp' = NoResponse
    /\ UNCHANGED <<readers, child, signals, budget, now, emitted>>
    /\ UNCHANGED <<orchVars, pipes>>

\* ----------------------------------------------------------------- pipes
\* stdin=PIPE, stdout=PIPE, stderr=PIPE of a child not spawned yet.  task:
\* units written to stdin the child has not read; closed: stdin.close() was
\* called; program: what the child does next, one unit at a time, "stdin"
\* for a read and a stream for a write, before it reads the rest of its
\* stdin and exits; out[s]: units written to s that read_stream has not
\* received
NoPipes ==
    [j \in JobIds |-> [task |-> 0, closed |-> FALSE, program |-> <<>>,
                       out |-> [s \in Streams |-> 0]]]

\* create_subprocess_exec returned a child that runs `program`:
\* the handle is recorded under the lock and both stdin.write calls queue
\* the task of `task` units; the supervisor awaits stdin.drain()
SpawnPipes(j, task, program) ==
    /\ pc[j] = "spawn"
    /\ child' = [child EXCEPT ![j] = "alive"]
    /\ jobs' = [jobs EXCEPT ![j]._process = Some(j)]
    /\ pipes' = [pipes EXCEPT ![j].task = task, ![j].program = program]
    /\ pc' = [pc EXCEPT ![j] = "drain"]
    /\ resp' = NoResponse
    /\ UNCHANGED <<readers, signals, budget, now, emitted>>
    /\ UNCHANGED orchVars

\* stdin.drain() returns once what is still queued fits the pipe and the
\* transport's buffer; stdin.close() and gather starts both readers
DrainReturns(j) ==
    /\ pc[j] = "drain"
    /\ pipes[j].task <= StdinRoom
    /\ pipes' = [pipes EXCEPT ![j].closed = TRUE]
    /\ pc' = [pc EXCEPT ![j] = "gather"]
    /\ readers' = [readers EXCEPT ![j] = Streams]
    /\ resp' = NoResponse
    /\ UNCHANGED <<jobs, child, signals, budget, now, emitted>>
    /\ UNCHANGED orchVars

\* one step of the child, which blocks in a read of an empty stdin that is
\* still open and in a write to a stream without room: the next unit of its
\* program, a read of the end of stdin counting as done; after its program
\* the rest of stdin, and at its end the child exits
ChildStep(j) ==
    /\ child[j] = "alive"
    /\ LET program == pipes[j].program
           reads == IF program = <<>> THEN TRUE ELSE Head(program) = "stdin"
       IN  \/ /\ reads
              /\ pipes[j].task > 0
              /\ pipes' = [pipes EXCEPT ![j].task = @ - 1,
                                        ![j].program = IF program = <<>> THEN <<>> ELSE Tail(program)]
              /\ UNCHANGED child
           \/ /\ reads
              /\ pipes[j].task = 0
              /\ pipes[j].closed
              /\ IF program = <<>>
                 THEN child' = [child EXCEPT ![j] = "exited"] /\ UNCHANGED pipes
                 ELSE pipes' = [pipes EXCEPT ![j].program = Tail(program)] /\ UNCHANGED child
           \/ /\ ~reads
              /\ pipes[j].out[Head(program)] < StreamRoom
              /\ pipes' = [pipes EXCEPT ![j].out[Head(program)] = @ + 1,
                                        ![j].program = Tail(program)]
              /\ UNCHANGED child
    /\ resp' = NoResponse
    /\ UNCHANGED <<jobs, pc, readers, signals, budget, now, emitted>>
    /\ UNCHANGED orchVars

\* read_stream on the pipe of s: readline returns a unit of output, a line
\* that is no JSON, which is appended to the sink; or, with nothing left
\* and the child gone, b"": the reader returns, and gather after the second
ReadStream(j, s) ==
    /\ s \in readers[j]
    /\ IF pipes[j].out[s] > 0
       THEN /\ pipes' = [pipes EXCEPT ![j].out[s] = @ - 1]
            /\ jobs' = [jobs EXCEPT
                   ![j].stdout_lines =
                       IF s = "stdout" THEN DequeAppend(@, "warning: slow", jobs[j].maxlen) ELSE @,
                   ![j].stderr_lines =
                       IF s = "stderr" THEN DequeAppend(@, "warning: slow", jobs[j].maxlen) ELSE @]
            /\ emitted' = [emitted EXCEPT ![j][s] = Append(@, "warning: slow")]
            /\ UNCHANGED <<pc, readers>>
       ELSE /\ child[j] = "exited"
            /\ readers' = [readers EXCEPT ![j] = @ \ {s}]
            /\ pc' = IF readers[j] = {s} THEN [pc EXCEPT ![j] = "wait"] ELSE pc
            /\ UNCHANGED <<jobs, emitted, pipes>>
    /\ resp' = NoResponse
    /\ UNCHANGED <<child, signals, budget, now>>
    /\ UNCHANGED orchVars

\* ---------------------------------------------------------------- routes
\* CodexJobResponse built from a job; tail is None for the whole tails
\* (POST /codex/exec) or the tail query parameter (GET /codex/jobs/{id})
CodexJobResponse(job, tail) ==
    LET cut(xs) == IF tail = None THEN xs ELSE LastN(xs, tail[1])
    IN  [id |-> job.id,
         status |-> job.status,
         returncode |-> job.returncode,
         task_id |-> job.task_id,
         command |-> job.command,
         created_at |-> job.created_at,
         started_at |-> job.started_at,
         finished_at |-> job.finished_at,
         stdout_tail |-> cut(job.stdout_lines),
         stderr_tail |-> cut(job.stderr_lines),
         events_tail |-> cut(job.events)]

\* POST /codex/exec
codex_exec(req) ==
    /\ budget.creates > 0
    /\ LET r == create_job(req)
       IN  /\ jobs' = r.jobs
           /\ pc' = r.pc
           /\ resp' = [op |-> "exec", id |-> r.ret.id, code |-> 200,
                       body |-> CodexJobResponse(r.ret, None)]
    /\ budget' = [budget EXCEPT !.creates = @ - 1]
    /\ UNCHANGED <<readers, child, signals, now, emitted>>
    /\ UNCHANGED <<orchVars, pipes>>

\* runner.create_job called by any of its callers, with the arguments req
CreateJob(req) ==
    /\ budget.creates > 0
    /\ LET r == create_job(req)
       IN  /\ jobs' = r.jobs
           /\ pc' = r.pc
           /\ resp' = [op |-> "create_job", id |-> r.ret.id, req |-> req]
    /\ budget' = [budget EXCEPT !.creates = @ - 1]
    /\ UNCHANGED <<readers, child, signals, now, emitted>>
    /\ UNCHANGED <<orchVars, pipes>>

\* a caller of runner.get_job that keeps what it got: self._jobs.get(job_id)
\* is the CodexJob object of the registry itself, so ret is a reference to
\* it, not a copy; seen is what the object held when the call returned
GetJob(job_id) ==
    /\ resp' = [op |-> "get_job", id |-> job_id,
                ret |-> IF get_job(job_id) = None THEN None ELSE Some([ref |-> job_id]),
                seen |-> get_job(job_id)]
    /\ UNCHANGED <<jobs, pc, readers, child, signals, budget, now, emitted>>
    /\ UNCHANGED <<orchVars, pipes>>

\* GET /codex/jobs/{job_id}?tail=
codex_job(job_id, tail) ==
    /\ LET job == get_job(job_id)
       IN  resp' = IF job = None
                   THEN [op |-> "get", id |-> job_id, code |-> 404,
                         body |-> [detail |-> "Job not found"]]
                   ELSE [op |-> "get", id |-> job_id, code |-> 200,
                         body |-> CodexJobResponse(job[1], Some(tail))]
    /\ UNCHANGED <<jobs, pc, readers, child, signals, budget, now, emitted>>
    /\ UNCHANGED <<orchVars, pipes>>

\* DELETE /codex/jobs/{job_id}
codex_cancel(job_id) ==
    /\ LET r == cancel_job(job_id)
       IN  /\ jobs' = r.jobs
           /\ signals' = r.signals
           /\ resp' = IF ~r.ret
                      THEN [op |-> "cancel", id |-> job_id, code |-> 404,
                            ok |-> r.ret,
                            body |-> [detail |-> "Job not running or not found"]]
                      ELSE [op |-> "cancel", id |-> job_id, code |-> 200,
                            ok |-> r.ret,
                            body |-> [status |-> "canceled", id |-> job_id]]
    /\ UNCHANGED <<pc, readers, child, budget, now, emitted>>
    /\ UNCHANGED <<orchVars, pipes>>

\* ---------------------------------------------------------- orchestrator
\* orchestrator_root, insights_dir, proposals_dir, runs_dir
orchestrator_root == RepoRoot \o "/.codex-orchestrator"
insights_dir(session_id) == orchestrator_root \o "/insights/" \o session_id
proposals_dir(proposal_id) == orchestrator_root \o "/proposals/" \o proposal_id
runs_dir == orchestrator_root \o "/runs"

\* _timestamp_slug(): the clock at the resolution of the model
_timestamp_slug == ToString(_utc_now)

\* the inputs of the two runs: session, prompt, mode, the transcript that
\* render_transcript(read_session_messages(...)) returns for the session
SessionIds == {"s1"}
RunModes == {"fork", "resume"}
Prompts == {" tidy up "}
Transcripts == {"", "[user]\nhi"}

\* "\n".join(lines)
RECURSIVE JoinLines(_)
JoinLines(lines) ==
    IF lines = <<>> THEN ""
    ELSE IF Len(lines) = 1 THEN lines[1]
    ELSE lines[1] \o "\n" \o JoinLines(Tail(lines))

\* what .strip() leaves of the joined lines: the first line is never blank,
\* so only the empty lines at the end go
RECURSIVE DropTrailingBlank(_)
DropTrailingBlank(lines) ==
    IF lines # <<>> /\ lines[Len(lines)] = ""
    THEN DropTrailingBlank(SubSeq(lines, 1, Len(lines) - 1))
    ELSE lines

_build_insights_task(transcript, prompt, mode) ==
    LET base == <<"You are generating *insights* to help improve this repository's Codex skills and AGENTS.md.",
                  "Return ONLY a JSON object matching the provided output schema.">>
                \o (IF mode = "fork" /\ transcript # ""
                    THEN <<"", "Conversation transcript:", transcript>> ELSE <<>>)
                \o <<"", "User prompt:", strip(prompt)>>
    IN  JoinLines(DropTrailingBlank(base)) \o "\n"

\* (the back quotes of the source text are left out)
_build_proposal_task(insight, transcript, prompt, mode) ==
    LET base == <<"You are proposing changes to make Codex more effective on this repository.",
                  "You MUST output a unified diff in the diff field of the JSON schema.",
                  "Allowed paths: .codex/skills/** and AGENTS.md only.",
                  "Return ONLY a JSON object matching the provided output schema.",
                  "", "Insights (JSON):", insight>>
                \o (IF mode = "fork" /\ transcript # ""
                    THEN <<"", "Conversation transcript:", transcript>> ELSE <<>>)
                \o (IF Truthy(prompt)
                    THEN <<"", "Additional user prompt:", strip(prompt[1])>> ELSE <<>>)
    IN  JoinLines(DropTrailingBlank(base)) \o "\n"

\* the arguments if the session id were passed on in both modes
RunRequestAlwaysResume(task, schema, session_id, mode) ==
    [DefaultRequest EXCEPT
        !.task = task, !.sandbox = "read-only", !.approval = "never",
        !.output_schema_path = Some(schema),
        !.resume_session_id = Some(session_id)]

\* the arguments both runs pass to runner.create_job, for a request that
\* names neither workdir nor model; what they leave out takes the default of
\* create_job
RunRequest(task, schema, session_id, mode) ==
    [DefaultRequest EXCEPT
        !.task = task, !.sandbox = "read-only", !.approval = "never",
        !.output_schema_path = Some(schema),
        !.resume_session_id = IF mode = "resume" THEN Some(session_id) ELSE None]

\* str(uuid4()) for an artifact or a proposal: a fresh id, named after the
\* number of the job that is created next
artifact_uuid4 == "u" \o ToString(uuid4)

\* _persist_run_meta: the path and the content of runs/<job_id>.json
run_meta_path(job_id) == runs_dir \o "/" \o ToString(job_id) \o ".json"
_persist_run_meta(job, kind, outputs) ==
    Put(files, run_meta_path(job.id),
        [json |-> [job_id |-> job.id, kind |-> kind,
                   created_at |-> job.created_at, command |-> job.command,
                   workdir |-> RepoRoot, codex_home |-> CodexHome,
                   outputs |-> outputs]])

\* start_insights_run without the call of _persist_run_meta
start_insights_runNoMeta(session_id, prompt, mode, transcript) ==
    /\ budget.creates > 0
    /\ LET artifact_id == artifact_uuid4
           slug == _timestamp_slug
           out_dir == insights_dir(session_id)
           artifact == [kind |-> "insights",
                        artifact_id |-> artifact_id,
                        session_id |-> session_id,
                        markdown_path |-> out_dir \o "/" \o slug \o "-" \o artifact_id \o ".md",
                        json_path |-> out_dir \o "/" \o slug \o "-" \o artifact_id \o ".json",
                        created_at |-> _utc_now]
           task == _build_insights_task(transcript, prompt, mode)
           r == create_job(RunRequest(task, RepoRoot \o "/backend/src/backend/codex/schemas/insights.schema.json", session_id, mode))
       IN  /\ jobs' = r.jobs
           /\ pc' = r.pc
           /\ artifacts' = Put(artifacts, r.ret.id, artifact)
           /\ finalizer' = [finalizer EXCEPT ![r.ret.id] = "created"]
           /\ resp' = [op |-> "insights_run", id |-> r.ret.id, artifact |-> artifact]
    /\ budget' = [budget EXCEPT !.creates = @ - 1]
    /\ UNCHANGED <<readers, child, signals, now, emitted>>
    /\ UNCHANGED files
    /\ UNCHANGED <<gitVars, pipes>>

\* start_insights_run: no await of it suspends, so the whole call is one step
start_insights_run(session_id, prompt, mode, transcript) ==
    /\ budget.creates > 0
    /\ LET artifact_id == artifact_uuid4
           slug == _timestamp_slug
           out_dir == insights_dir(session_id)
           artifact == [kind |-> "insights",
                        artifact_id |-> artifact_id,
                        session_id |-> session_id,
                        markdown_path |-> out_dir \o "/" \o slug \o "-" \o artifact_id \o ".md",
                        json_path |-> out_dir \o "/" \o slug \o "-" \o artifact_id \o ".json",
                        created_at |-> _utc_now]
           task == _build_insights_task(transcript, prompt, mode)
           r == create_job(RunRequest(task, RepoRoot \o "/backend/src/backend/codex/schemas/insights.schema.json", session_id, mode))
       IN  /\ jobs' = r.jobs
           /\ pc' = r.pc
           /\ artifacts' = Put(artifacts, r.ret.id, artifact)
           /\ files' = _persist_run_meta(r.ret, "insights", [artifact_id |-> artifact_id])
           /\ finalizer' = [finalizer EXCEPT ![r.ret.id] = "created"]
           /\ resp' = [op |-> "insights_run", id |-> r.ret.id, artifact |-> artifact]
    /\ budget' = [budget EXCEPT !.creates = @ - 1]
    /\ UNCHANGED <<readers, child, signals, now, emitted>>
    /\ UNCHANGED <<gitVars, pipes>>

\* start_proposal_run, one step as well
start_proposal_run(session_id, insight, prompt, mode, transcript) ==
    /\ budget.creates > 0
    /\ LET proposal_id == artifact_uuid4
           out_dir == proposals_dir(proposal_id)
           artifact == [kind |-> "proposal",
                        proposal_id |-> proposal_id,
                        session_id |-> session_id,
                        diff_path |-> out_dir \o "/proposal.diff",
                        meta_path |-> out_dir \o "/meta.json",
                        created_at |-> _utc_now]
           task == _build_proposal_task(insight, transcript, prompt, mode)
           r == create_job(RunRequest(task, RepoRoot \o "/backend/src/backend/codex/schemas/proposal.schema.json", session_id, mode))
       IN  /\ jobs' = r.jobs
           /\ pc' = r.pc
           /\ artifacts' = Put(artifacts, r.ret.id, artifact)
           /\ files' = _persist_run_meta(r.ret, "proposal", [proposal_id |-> proposal_id])
           /\ finalizer' = [finalizer EXCEPT ![r.ret.id] = "created"]
           /\ resp' = [op |-> "proposal_run", id |-> r.ret.id, artifact |-> artifact]
    /\ budget' = [budget EXCEPT !.creates = @ - 1]
    /\ UNCHANGED <<readers, child, signals, now, emitted>>
    /\ UNCHANGED <<gitVars, pipes>>

\* what the child leaves in the file named by -o: blank, no JSON, JSON that
\* is no object, an insights object, blank insights, a blank diff, a diff
LastMessages ==
    {" ", "not json", "[1]",
     "{\"insights_markdown\":\" # Tips \"}",
     "{\"insights_markdown\":\" \"}",
     "{\"diff\":\" \"}",
     "{\"diff\":\"--- a/AGENTS.md\\n+++ b/AGENTS.md\\n\",\"summary\":\"s\"}"}

\* the child writes its last message; it does so once
ChildWritesLastMessage(j, text) ==
    /\ child[j] = "alive"
    /\ jobs[j].last_message_path \notin DOMAIN files
    /\ files' = Put(files, jobs[j].last_message_path, text)
    /\ resp' = NoResponse
    /\ UNCHANGED <<jobs, pc, readers, child, signals, budget, now, emitted>>
    /\ UNCHANGED <<artifacts, finalizer>>
    /\ UNCHANGED <<gitVars, pipes>>

\* _read_last_message: the stripped text of the file, None if the file is
\* missing or the text is empty
_read_last_message(path) ==
    IF path \notin DOMAIN files THEN None
    ELSE IF strip(files[path]) = "" THEN None
    ELSE Some(strip(files[path]))

\* the characters of a string: of the diff strings above and of the literals
\* and the diff lines below
Chars(text) ==
    CASE text = " " ->
             <<" ">>
      [] text = "user" ->
             <<"u", "s", "e", "r">>
      [] text = "assistant" ->
             <<"a", "s", "s", "i", "s", "t", "a", "n", "t">>
      [] text = "final" ->
             <<"f", "i", "n", "a", "l">>
      [] text = "hi" ->
             <<"h", "i">>
      [] text = " x " ->
             <<" ", "x", " ">>
      [] text = "--- a/AGENTS.md\n+++ b/AGENTS.md\n" ->
             <<"-", "-", "-", " ", "a", "/", "A", "G", "E", "N", "T", "S",
               ".", "m", "d", "\n", "+", "+", "+", " ", "b", "/", "A", "G",
               "E", "N", "T", "S", ".", "m", "d", "\n">>
      [] text = "+++ " ->
             <<"+", "+", "+", " ">>
      [] text = "--- " ->
             <<"-", "-", "-", " ">>
      [] text = "a/" ->
             <<"a", "/">>
      [] text = "b/" ->
             <<"b", "/">>
      [] text = "a/dev/null" ->
             <<"a", "/", "d", "e", "v", "/", "n", "u", "l", "l">>
      [] text = "b/dev/null" ->
             <<"b", "/", "d", "e", "v", "/", "n", "u", "l", "l">>
      [] text = "/dev/null" ->
             <<"/", "d", "e", "v", "/", "n", "u", "l", "l">>
      [] text = "AGENTS.md" ->
             <<"A", "G", "E", "N", "T", "S", ".", "m", "d">>
      [] text = "/AGENTS.md" ->
             <<"/", "A", "G", "E", "N", "T", "S", ".", "m", "d">>
      [] text = ".codex/skills/" ->
             <<".", "c", "o", "d", "e", "x", "/", "s", "k", "i", "l", "l",
               "s", "/">>
      [] text = "rename from " ->
             <<"r", "e", "n", "a", "m", "e", " ", "f", "r", "o", "m", " ">>
      [] text = "rename to " ->
             <<"r", "e", "n", "a", "m", "e", " ", "t", "o", " ">>
      [] text = ".." ->
             <<".", ".">>
      [] text = "/" ->
             <<"/">>
      [] text = "--- a/AGENTS.md" ->
             <<"-", "-", "-", " ", "a", "/", "A", "G", "E", "N", "T", "S",
               ".", "m", "d">>
      [] text = "+++ b/AGENTS.md" ->
             <<"+", "+", "+", " ", "b", "/", "A", "G", "E", "N", "T", "S",
               ".", "m", "d">>
      [] text = "+++ b/.codex/skills/x" ->
             <<"+", "+", "+", " ", "b", "/", ".", "c", "o", "d", "e", "x",
               "/", "s", "k", "i", "l", "l", "s", "/", "x">>
      [] text = "+++ b/docs/AGENTS.md" ->
             <<"+", "+", "+", " ", "b", "/", "d", "o", "c", "s", "/", "A",
               "G", "E", "N", "T", "S", ".", "m", "d">>
      [] text = "+++ b/evil" ->
             <<"+", "+", "+", " ", "b", "/", "e", "v", "i", "l">>
      [] text = "--- /dev/null" ->
             <<"-", "-", "-", " ", "/", "d", "e", "v", "/", "n", "u", "l",
               "l">>
      [] text = "--- a/dev/null" ->
             <<"-", "-", "-", " ", "a", "/", "d", "e", "v", "/", "n", "u",
               "l", "l">>
      [] text = "+++ b/AGENTS.md evil" ->
             <<"+", "+", "+", " ", "b", "/", "A", "G", "E", "N", "T", "S",
               ".", "m", "d", " ", "e", "v", "i", "l">>
      [] text = "rename to evil" ->
             <<"r", "e", "n", "a", "m", "e", " ", "t", "o", " ", "e", "v",
               "i", "l">>
      [] text = "+++ b/.codex/skills/../evil" ->
             <<"+", "+", "+", " ", "b", "/", ".", "c", "o", "d", "e", "x",
               "/", "s", "k", "i", "l", "l", "s", "/", ".", ".", "/", "e",
               "v", "i", "l">>
      [] text = "+++ a/b/x" ->
             <<"+", "+", "+", " ", "a", "/", "b", "/", "x">>
      [] text = "+++b/evil" ->
             <<"+", "+", "+", "b", "/", "e", "v", "i", "l">>
      [] OTHER -> <<>>

\* the whitespace of str.strip() and str.split() among the characters used
Whitespace == {" ", "\n", "\t", "\r", "\f"}

\* str.strip() on a sequence of characters
RECURSIVE StripChars(_)
StripChars(cs) ==
    IF cs = <<>> THEN cs
    ELSE IF cs[1] \in Whitespace THEN StripChars(Tail(cs))
    ELSE IF cs[Len(cs)] \in Whitespace
    THEN StripChars(SubSeq(cs, 1, Len(cs) - 1))
    ELSE cs

get_insights_artifact_for_job(job_id) ==
    IF job_id \in DOMAIN artifacts /\ artifacts[job_id].kind = "insights"
    THEN Some(artifacts[job_id]) ELSE None

get_proposal_artifact_for_job(job_id) ==
    IF job_id \in DOMAIN artifacts /\ artifacts[job_id].kind = "proposal"
    THEN Some(artifacts[job_id]) ELSE None

\* the files if the markdown were written for every string, blank or not
InsightsFilesAnyString(artifact, job) ==
    LET last == _read_last_message(job.last_message_path)
        payload == IF last = None THEN None ELSE json_loads(last[1])
        md_text == IF payload # None /\ payload[1].t = "obj"
                   THEN DictGet(payload[1].kv, "insights_markdown") ELSE None
        raw == Put(files, artifact.json_path, [json |-> payload[1]])
    IN  IF payload = None THEN files
        ELSE IF md_text # None /\ md_text[1].t = "str"
        THEN Put(raw, artifact.markdown_path, strip(md_text[1].s) \o "\n")
        ELSE raw

\* the files after _finalize_insights has handled the last message of a
\* succeeded job
InsightsFiles(artifact, job) ==
    LET last == _read_last_message(job.last_message_path)
        payload == IF last = None THEN None ELSE json_loads(last[1])
        md_text == IF payload # None /\ payload[1].t = "obj"
                   THEN DictGet(payload[1].kv, "insights_markdown") ELSE None
        raw == Put(files, artifact.json_path, [json |-> payload[1]])
    IN  IF payload = None THEN files
        ELSE IF md_text # None /\ md_text[1].t = "str" /\ strip(md_text[1].s) # ""
        THEN Put(raw, artifact.markdown_path, strip(md_text[1].s) \o "\n")
        ELSE raw

\* the files if the diff were written for every string, blank or not
ProposalFilesAnyString(artifact, job) ==
    LET last == _read_last_message(job.last_message_path)
        payload == IF last = None THEN None ELSE json_loads(last[1])
        get(key) == IF payload[1].t = "obj" THEN DictGet(payload[1].kv, key) ELSE None
        diff == IF payload = None THEN None ELSE get("diff")
        meta == [proposal_id |-> artifact.proposal_id,
                 session_id |-> artifact.session_id,
                 created_at |-> artifact.created_at,
                 job_id |-> job.id,
                 summary |-> get("summary"),
                 files_touched |-> get("files_touched"),
                 safety_notes |-> get("safety_notes")]
    IN  IF diff = None \/ diff[1].t # "str" THEN files
        ELSE Put(Put(files, artifact.diff_path, StripChars(Chars(diff[1].s)) \o <<"\n">>),
                 artifact.meta_path, [json |-> meta])

\* the files after _finalize_proposal has handled the last message of a
\* succeeded job
ProposalFiles(artifact, job) ==
    LET last == _read_last_message(job.last_message_path)
        payload == IF last = None THEN None ELSE json_loads(last[1])
        get(key) == IF payload[1].t = "obj" THEN DictGet(payload[1].kv, key) ELSE None
        diff == IF payload = None THEN None ELSE get("diff")
        meta == [proposal_id |-> artifact.proposal_id,
                 session_id |-> artifact.session_id,
                 created_at |-> artifact.created_at,
                 job_id |-> job.id,
                 summary |-> get("summary"),
                 files_touched |-> get("files_touched"),
                 safety_notes |-> get("safety_notes")]
    IN  IF diff = None \/ diff[1].t # "str" THEN files
        ELSE IF StripChars(Chars(diff[1].s)) = <<>> THEN files
        ELSE Put(Put(files, artifact.diff_path, StripChars(Chars(diff[1].s)) \o <<"\n">>),
                 artifact.meta_path, [json |-> meta])

\* _finalize_insights without the test of job.status
_finalize_insightsAnyStatus(j) ==
    /\ finalizer[j] \in {"created", "sleep"}
    /\ LET artifact == get_insights_artifact_for_job(j)
           job == get_job(j)
       IN  /\ artifact # None
           /\ IF job = None
              THEN finalizer' = [finalizer EXCEPT ![j] = "done"] /\ UNCHANGED files
              ELSE IF job[1].status \in {"queued", "running"}
              THEN finalizer' = [finalizer EXCEPT ![j] = "sleep"] /\ UNCHANGED files
              ELSE /\ finalizer' = [finalizer EXCEPT ![j] = "done"]
                   /\ files' = InsightsFiles(artifact[1], job[1])
    /\ resp' = NoResponse
    /\ UNCHANGED <<jobs, pc, readers, child, signals, budget, now, emitted>>
    /\ UNCHANGED artifacts
    /\ UNCHANGED <<gitVars, pipes>>

\* _finalize_insights from the start, or from a sleep, to its next sleep or
\* to its end (a finalizer is started for a registered artifact only)
_finalize_insights(j) ==
    /\ finalizer[j] \in {"created", "sleep"}
    /\ LET artifact == get_insights_artifact_for_job(j)
           job == get_job(j)
       IN  /\ artifact # None
           /\ IF job = None
              THEN finalizer' = [finalizer EXCEPT ![j] = "done"] /\ UNCHANGED files
              ELSE IF job[1].status \in {"queued", "running"}
              THEN finalizer' = [finalizer EXCEPT ![j] = "sleep"] /\ UNCHANGED files
              ELSE IF job[1].status # "succeeded"
              THEN finalizer' = [finalizer EXCEPT ![j] = "done"] /\ UNCHANGED files
              ELSE /\ finalizer' = [finalizer EXCEPT ![j] = "done"]
                   /\ files' = InsightsFiles(artifact[1], job[1])
    /\ resp' = NoResponse
    /\ UNCHANGED <<jobs, pc, readers, child, signals, budget, now, emitted>>
    /\ UNCHANGED artifacts
    /\ UNCHANGED <<gitVars, pipes>>

\* _finalize_proposal, in the same steps
_finalize_proposal(j) ==
    /\ finalizer[j] \in {"created", "sleep"}
    /\ LET artifact == get_proposal_artifact_for_job(j)
           job == get_job(j)
       IN  /\ artifact # None
           /\ IF job = None
              THEN finalizer' = [finalizer EXCEPT ![j] = "done"] /\ UNCHANGED files
              ELSE IF job[1].status \in {"queued", "running"}
              THEN finalizer' = [finalizer EXCEPT ![j] = "sleep"] /\ UNCHANGED files
              ELSE IF job[1].status # "succeeded"
              THEN finalizer' = [finalizer EXCEPT ![j] = "done"] /\ UNCHANGED files
              ELSE /\ finalizer' = [finalizer EXCEPT ![j] = "done"]
                   /\ files' = ProposalFiles(artifact[1], job[1])
    /\ resp' = NoResponse
    /\ UNCHANGED <<jobs, pc, readers, child, signals, budget, now, emitted>>
    /\ UNCHANGED artifacts
    /\ UNCHANGED <<gitVars, pipes>>

\* ----------------------------------------------------------------- diffs
\* Texts are sequences of characters, so that the string operations of
\* validate_diff_paths are computed and not looked up.
Min(S) == CHOOSE x \in S : \A y \in S : x <= y

startswith(cs, prefix) ==
    Len(cs) >= Len(prefix) /\ SubSeq(cs, 1, Len(prefix)) = prefix

endswith(cs, suffix) ==
    Len(cs) >= Len(suffix)
    /\ SubSeq(cs, Len(cs) - Len(suffix) + 1, Len(cs)) = suffix

\* str.splitlines(): the boundaries are "\n", "\r", "\f" among the characters
\* used, "\r\n" is one boundary, no empty last line
RECURSIVE splitlines(_)
splitlines(cs) ==
    IF cs = <<>> THEN <<>>
    ELSE LET breaks == {i \in 1..Len(cs) : cs[i] \in {"\n", "\r", "\f"}}
         IN  IF breaks = {} THEN <<cs>>
             ELSE LET i == Min(breaks)
                      next == IF cs[i] = "\r" /\ i < Len(cs) /\ cs[i + 1] = "\n"
                              THEN i + 2 ELSE i + 1
                  IN  <<SubSeq(cs, 1, i - 1)>>
                      \o splitlines(SubSeq(cs, next, Len(cs)))

\* str.split(): the maximal runs of characters that are not whitespace
RECURSIVE split(_)
split(cs) ==
    LET starts == {i \in 1..Len(cs) : cs[i] \notin Whitespace}
    IN  IF starts = {} THEN <<>>
        ELSE LET i == Min(starts)
                 ends == {k \in i..Len(cs) : cs[k] \in Whitespace}
                 e == IF ends = {} THEN Len(cs) + 1 ELSE Min(ends)
             IN  <<SubSeq(cs, i, e - 1)>> \o split(SubSeq(cs, e, Len(cs)))

\* ord(c) for the characters of the diffs
ord(c) ==
    CASE c = "\n" -> 10
      [] c = " " -> 32
      [] c = "+" -> 43
      [] c = "-" -> 45
      [] c = "." -> 46
      [] c = "/" -> 47
      [] c = "A" -> 65
      [] c = "E" -> 69
      [] c = "G" -> 71
      [] c = "N" -> 78
      [] c = "S" -> 83
      [] c = "T" -> 84
      [] c = "a" -> 97
      [] c = "b" -> 98
      [] c = "c" -> 99
      [] c = "d" -> 100
      [] c = "e" -> 101
      [] c = "f" -> 102
      [] c = "i" -> 105
      [] c = "k" -> 107
      [] c = "l" -> 108
      [] c = "m" -> 109
      [] c = "n" -> 110
      [] c = "o" -> 111
      [] c = "r" -> 114
      [] c = "s" -> 115
      [] c = "t" -> 116
      [] c = "u" -> 117
      [] c = "v" -> 118
      [] c = "x" -> 120

\* a < b for two strings: by code point, a proper prefix first
RECURSIVE StrLess(_, _)
StrLess(a, b) ==
    IF a = <<>> THEN b # <<>>
    ELSE IF b = <<>> THEN FALSE
    ELSE IF a[1] = b[1] THEN StrLess(Tail(a), Tail(b))
    ELSE ord(a[1]) < ord(b[1])

\* sorted(set of strings)
RECURSIVE sorted(_)
sorted(S) ==
    IF S = {} THEN <<>>
    ELSE LET least == CHOOSE x \in S : \A y \in S \ {x} : StrLess(x, y)
         IN  <<least>> \o sorted(S \ {least})

\* the loop body stripping a second leading a/ or b/ too
TouchedPathStripsTwice(line) ==
    IF startswith(line, Chars("+++ ")) \/ startswith(line, Chars("--- "))
    THEN LET parts == split(line)
             once == IF startswith(parts[2], Chars("a/")) \/ startswith(parts[2], Chars("b/"))
                     THEN SubSeq(parts[2], 3, Len(parts[2]))
                     ELSE parts[2]
         IN  IF Len(parts) < 2 THEN None
             ELSE IF parts[2] \in {Chars("a/dev/null"), Chars("b/dev/null"), Chars("/dev/null")}
             THEN None
             ELSE IF startswith(once, Chars("a/")) \/ startswith(once, Chars("b/"))
             THEN Some(SubSeq(once, 3, Len(once)))
             ELSE Some(once)
    ELSE None

\* validate_diff_paths: the path one line adds to touched, None if it adds
\* none
TouchedPath(line) ==
    IF startswith(line, Chars("+++ ")) \/ startswith(line, Chars("--- "))
    THEN LET parts == split(line)
         IN  IF Len(parts) < 2 THEN None
             ELSE IF parts[2] \in {Chars("a/dev/null"), Chars("b/dev/null"), Chars("/dev/null")}
             THEN None
             ELSE IF startswith(parts[2], Chars("a/")) \/ startswith(parts[2], Chars("b/"))
             THEN Some(SubSeq(parts[2], 3, Len(parts[2])))
             ELSE Some(parts[2])
    ELSE None

\* the tests without "or path.endswith('/AGENTS.md')"
AllowedPathRootOnly(path) ==
    \/ path = Chars("AGENTS.md")
    \/ startswith(path, Chars(".codex/skills/"))

\* validate_diff_paths: the tests a touched path must pass
AllowedPath(path) ==
    \/ path = Chars("AGENTS.md")
    \/ endswith(path, Chars("/AGENTS.md"))
    \/ startswith(path, Chars(".codex/skills/"))

\* the two error messages; the second is an f-string, kept as its literal
\* and its field
NoPathsError == [text |-> "No file paths detected in diff.", path |-> <<>>]
DisallowedError(path) == [text |-> "Disallowed path in diff: ", path |-> path]

\* validate_diff_paths: (ok, touched_paths, errors)
validate_diff_paths(diff_text) ==
    LET lines == splitlines(diff_text)
        touched == {TouchedPath(lines[i])[1] :
                        i \in {k \in 1..Len(lines) : TouchedPath(lines[k]) # None}}
        paths == sorted(touched)
        disallowed == SelectSeq(paths, LAMBDA path : ~AllowedPath(path))
        errors == (IF touched = {} THEN <<NoPathsError>> ELSE <<>>)
                  \o [i \in 1..Len(disallowed) |-> DisallowedError(disallowed[i])]
    IN  [ok |-> Len(errors) = 0, touched_paths |-> paths, errors |-> errors]

\* ------------------------------------------------------------- git apply
\* git apply is not part of the repository.  What is modelled of it: it
\* reads the patch line by line ("\n" only); a "--- " or "+++ " line names a
\* file by the rest of the line up to a tab, /dev/null naming none, less the
\* leading component (-p1); "rename from" and "rename to" lines name files
\* in sections that have no "--- " or "+++ " line; it refuses a patch that
\* names no file or a path with a ".." component; it changes all the files
\* a patch names or none.  Whether the hunks fit the working tree is an
\* input (applies).
RECURSIVE SplitOn(_, _)
SplitOn(cs, sep) ==
    LET seps == {i \in 1..Len(cs) : cs[i] = sep}
    IN  IF seps = {} THEN <<cs>>
        ELSE <<SubSeq(cs, 1, Min(seps) - 1)>>
             \o SplitOn(SubSeq(cs, Min(seps) + 1, Len(cs)), sep)

\* the file a line of the patch names for git, None if it names none
GitPath(line) ==
    IF startswith(line, Chars("+++ ")) \/ startswith(line, Chars("--- "))
    THEN LET name == SplitOn(SubSeq(line, 5, Len(line)), "\t")[1]
             slashes == {i \in 1..Len(name) : name[i] = "/"}
         IN  IF name = <<>> \/ name = Chars("/dev/null") \/ slashes = {} THEN None
             ELSE Some(SubSeq(name, Min(slashes) + 1, Len(name)))
    ELSE IF startswith(line, Chars("rename from "))
    THEN Some(SubSeq(line, Len(Chars("rename from ")) + 1, Len(line)))
    ELSE IF startswith(line, Chars("rename to "))
    THEN Some(SubSeq(line, Len(Chars("rename to ")) + 1, Len(line)))
    ELSE None

\* the files git apply creates, modifies, deletes or renames for a patch
GitTouched(diff_text) ==
    LET lines == SplitOn(diff_text, "\n")
    IN  {GitPath(lines[i])[1] :
             i \in {k \in 1..Len(lines) : GitPath(lines[k]) # None}}

\* git apply refuses the patch whatever the working tree is
GitRefuses(touched) ==
    \/ touched = {}
    \/ \E path \in touched :
           \E part \in {SplitOn(path, "/")} :
               \E i \in 1..Len(part) : part[i] = Chars("..")

\* subprocess.run(["git", "apply", "--whitespace=nowarn", diff_path])
git_apply(diff_text, applies) ==
    IF applies /\ ~GitRefuses(GitTouched(diff_text))
    THEN [returncode |-> 0, repo |-> repo \cup GitTouched(diff_text)]
    ELSE [returncode |-> 1, repo |-> repo]

\* the dict apply_proposal_diff returns, the working tree and the number of
\* git runs once git apply has ended as proc
AfterGit(touched, proc) ==
    IF proc.returncode # 0
    THEN [ret |-> [applied |-> FALSE,
                   errors |-> Some(<<[text |-> "git apply failed", path |-> <<>>],
                                     [text |-> "stderr", path |-> <<>>]>>),
                   files_touched |-> touched],
          repo |-> repo, git_runs |-> git_runs + 1]
    ELSE [ret |-> [applied |-> TRUE, errors |-> None, files_touched |-> touched],
          repo |-> proc.repo, git_runs |-> git_runs + 1]

\* apply_proposal_diff after validate_diff_paths, without the test of ok
ApplyValidatedUnchecked(v, diff_text, applies) ==
    AfterGit(v.touched_paths, git_apply(diff_text, applies))

\* apply_proposal_diff after validate_diff_paths has returned v: git apply
\* is run only if v.ok
ApplyValidated(v, diff_text, applies) ==
    IF ~v.ok
    THEN [ret |-> [applied |-> FALSE, errors |-> Some(v.errors),
                   files_touched |-> v.touched_paths],
          repo |-> repo, git_runs |-> git_runs]
    ELSE AfterGit(v.touched_paths, git_apply(diff_text, applies))

\* apply_proposal_diff: the dict returned, the working tree and the number of
\* git runs after the call
apply_proposal_diff(diff_path, applies) ==
    ApplyValidated(validate_diff_paths(files[diff_path]), files[diff_path], applies)

\* ------------------------------------------------------ proposal routes
proposal_diff_path(proposal_id) == proposals_dir(proposal_id) \o "/proposal.diff"
proposal_meta_path(proposal_id) == proposals_dir(proposal_id) \o "/meta.json"

\* base.exists(): start_proposal_run made the directory, or a file is in it
proposal_dir_exists(proposal_id) ==
    \/ \E j \in DOMAIN artifacts :
           artifacts[j].kind = "proposal" /\ artifacts[j].proposal_id = proposal_id
    \/ proposal_diff_path(proposal_id) \in DOMAIN files
    \/ proposal_meta_path(proposal_id) \in DOMAIN files

\* GET /codex/proposals/{proposal_id}
get_proposal(proposal_id) ==
    /\ LET diff_path == proposal_diff_path(proposal_id)
           meta_path == proposal_meta_path(proposal_id)
           meta == IF meta_path \in DOMAIN files THEN Some(files[meta_path].json) ELSE None
           session_id == IF meta = None THEN "" ELSE meta[1].session_id
           summary == IF meta = None THEN None ELSE meta[1].summary
           v == validate_diff_paths(files[diff_path])
       IN  resp' =
               IF ~proposal_dir_exists(proposal_id)
               THEN [op |-> "get_proposal", id |-> proposal_id, code |-> 404,
                     body |-> [detail |-> "Proposal not found"]]
               ELSE IF diff_path \notin DOMAIN files
               THEN [op |-> "get_proposal", id |-> proposal_id, code |-> 200,
                     body |-> [proposal_id |-> proposal_id, session_id |-> session_id,
                               status |-> "missing"]]
               ELSE [op |-> "get_proposal", id |-> proposal_id, code |-> 200,
                     body |-> [proposal_id |-> proposal_id, session_id |-> session_id,
                               status |-> "ready", diff |-> files[diff_path],
                               summary |-> summary,
                               files_touched |-> v.touched_paths,
                               validation_errors |-> v.errors]]
    /\ UNCHANGED <<jobs, pc, readers, child, signals, budget, now, emitted>>
    /\ UNCHANGED <<orchVars, pipes>>

\* the handler without "if not req.confirm: raise HTTPException(400)"
apply_proposalUnconfirmed(proposal_id, confirm, applies) ==
    /\ git_runs < MaxApplies
    /\ IF proposal_diff_path(proposal_id) \notin DOMAIN files
       THEN /\ resp' = [op |-> "apply", id |-> proposal_id, code |-> 404, body |-> [detail |-> "Proposal diff not found"]]
            /\ UNCHANGED gitVars
       ELSE \E r \in {apply_proposal_diff(proposal_diff_path(proposal_id), applies)} :
                /\ resp' = [op |-> "apply", id |-> proposal_id, code |-> 200,
                            body |-> [applied |-> r.ret.applied, files_touched |-> r.ret.files_touched,
                                      errors |-> IF r.ret.errors = None THEN <<>> ELSE r.ret.errors[1]]]
                /\ repo' = r.repo
                /\ git_runs' = r.git_runs
    /\ UNCHANGED <<jobs, pc, readers, child, signals, budget, now, emitted>>
    /\ UNCHANGED <<artifacts, finalizer, files, pipes>>

\* POST /codex/proposals/{proposal_id}/apply
apply_proposal(proposal_id, confirm, applies) ==
    /\ git_runs < MaxApplies
    /\ IF ~confirm
       THEN /\ resp' = [op |-> "apply", id |-> proposal_id, code |-> 400,
                        body |-> [detail |-> "Missing confirmation"]]
            /\ UNCHANGED gitVars
       ELSE IF proposal_diff_path(proposal_id) \notin DOMAIN files
       THEN /\ resp' = [op |-> "apply", id |-> proposal_id, code |-> 404,
                        body |-> [detail |-> "Proposal diff not found"]]
            /\ UNCHANGED gitVars
       ELSE \E r \in {apply_proposal_diff(proposal_diff_path(proposal_id), applies)} :
                /\ resp' = [op |-> "apply", id |-> proposal_id, code |-> 200,
                            body |-> [applied |-> r.ret.applied,
                                      files_touched |-> r.ret.files_touched,
                                      errors |-> IF r.ret.errors = None THEN <<>>
                                                 ELSE r.ret.errors[1]]]
                /\ repo' = r.repo
                /\ git_runs' = r.git_runs
    /\ UNCHANGED <<jobs, pc, readers, child, signals, budget, now, emitted>>
    /\ UNCHANGED <<artifacts, finalizer, files, pipes>>

\* str(uuid4()) is five groups of hex digits joined by "-"; the model writes
\* a job id as a number, and this for the text of its last group
UuidLastGroup(job_id) == "-" \o ToString(job_id)

\* _find_insight_paths, its second component: Some(path) of a file of the
\* directory insights/<session_id> whose name matches *-<artifact_id>.json,
\* None if the directory or such a file does not exist.  The directory is
\* looked up by the file system, for which insights/../runs is runs/ once
\* insights/ exists; a file <slug>-<artifact_id>.json matches, and so does
\* the run meta <job_id>.json of a job whose id ends with -<artifact_id>
_find_insight_paths(session_id, artifact_id) ==
    LET made == \E j \in DOMAIN artifacts : artifacts[j].kind = "insights"
        base == IF session_id = "../runs" THEN runs_dir ELSE insights_dir(session_id)
        matches == {path \in DOMAIN files :
                       /\ made
                       /\ \/ \E slug \in 0..MaxClock :
                                path = base \o "/" \o ToString(slug) \o "-" \o artifact_id \o ".json"
                          \/ \E j \in JobIds :
                                /\ artifact_id = UuidLastGroup(j)
                                /\ path = base \o "/" \o ToString(j) \o ".json"}
    IN  IF matches = {} THEN None ELSE Some(CHOOSE path \in matches : TRUE)

\* json.dumps(value, indent=2, sort_keys=True) of a value the service has
\* written to a JSON file: a last message, or a run meta
json_dumps(value) ==
    CASE value = JArr(<<JNum(1)>>) -> "[\n  1\n]"
      [] value = JObj(<<KV("insights_markdown", JStr(" # Tips "))>>) ->
             "{\n  \"insights_markdown\": \" # Tips \"\n}"
      [] value = JObj(<<KV("insights_markdown", JStr(" "))>>) ->
             "{\n  \"insights_markdown\": \" \"\n}"
      [] value = JObj(<<KV("diff", JStr(" "))>>) -> "{\n  \"diff\": \" \"\n}"
      [] value = JObj(<<KV("diff", JStr("--- a/AGENTS.md\n+++ b/AGENTS.md\n")), KV("summary", JStr("s"))>>) ->
             "{\n  \"diff\": \"--- a/AGENTS.md\\n+++ b/AGENTS.md\\n\",\n  \"summary\": \"s\"\n}"
      [] OTHER ->
             LET RECURSIVE Items(_, _)
                 Items(xs, i) ==
                     IF i > Len(xs) THEN ""
                     ELSE "    \"" \o xs[i] \o "\"" \o (IF i < Len(xs) THEN ",\n" ELSE "\n") \o Items(xs, i + 1)
             IN  "{\n  \"codex_home\": \"" \o value.codex_home \o "\",\n  \"command\": [\n"
                 \o Items(value.command, 1)
                 \o "  ],\n  \"created_at\": \"" \o ToString(value.created_at)
                 \o "\",\n  \"job_id\": \"" \o ToString(value.job_id)
                 \o "\",\n  \"kind\": \"" \o value.kind
                 \o "\",\n  \"outputs\": {\n    \"artifact_id\": \"" \o value.outputs.artifact_id
                 \o "\"\n  },\n  \"workdir\": \"" \o value.workdir \o "\"\n}"

\* POST /codex/proposals/run
run_proposal(session_id, insight_artifact_id, mode, transcript) ==
    LET js_path == _find_insight_paths(session_id, insight_artifact_id)
        refused(code, detail) ==
            /\ resp' = [op |-> "run_proposal", code |-> code, body |-> [detail |-> detail]]
            /\ UNCHANGED <<jobs, pc, readers, child, signals, budget, now, emitted, orchVars, pipes>>
    IN  IF js_path = None THEN refused(404, "Insight JSON not found")
        ELSE IF files[js_path[1]].json = JNull THEN refused(400, "Insight JSON is invalid")
        ELSE start_proposal_run(session_id, json_dumps(files[js_path[1]].json), None, mode, transcript)

\* the lines of the patches: the lines that name files or look as if they
\* did; the hunks are left out
DiffLines ==
    {"--- a/AGENTS.md",
     "+++ b/AGENTS.md",
     "+++ b/.codex/skills/x",
     "+++ b/docs/AGENTS.md",
     "+++ b/evil",
     "--- /dev/null",
     "--- a/dev/null",
     "+++ ",
     "+++ b/AGENTS.md evil",
     "rename to evil",
     "+++ b/.codex/skills/../evil",
     "+++ a/b/x",
     "+++b/evil"}

\* the texts of up to n of these lines, each line ended by "\n"
RECURSIVE DiffTextsOf(_)
DiffTextsOf(n) ==
    IF n = 0 THEN {<<>>}
    ELSE DiffTextsOf(n - 1)
         \cup {text \o Chars(line) \o <<"\n">> :
                   text \in DiffTextsOf(n - 1), line \in DiffLines}

DiffTexts == DiffTextsOf(MaxDiffLines)

\* the proposals asked for: "p1" may have a proposal.diff, "p2" has nothing
ProposalIds == {"p1", "p2"}

\* ---------------------------------------------------------------- journal
\* a value read with dict.get is a string
IsStr(value) == value # None /\ value[1].t = "str"

\* datetime.fromisoformat on the timestamps of the records, the trailing Z
\* rewritten to +00:00: the seconds since 1970 of the datetime, None for
\* ValueError
fromisoformat(value) ==
    CASE value = "" -> None
      [] value = "2026-02-05T10:00:00.000Z" -> Some(1770285600)
      [] value = "2026-02-05T10:01:00Z" -> Some(1770285660)
      [] value = "2026-02-05T10:02:00+00:00" -> Some(1770285720)
      [] value = "1969-12-31T23:59:59Z" -> Some(-1)
      [] value = "yesterday" -> None
      [] OTHER -> None

\* _parse_dt
_parse_dt(value) ==
    IF ~IsStr(value) THEN None
    ELSE IF value[1].s = "" THEN None
    ELSE fromisoformat(value[1].s)

\* the components of the paths named by cwd
PathParts(path) ==
    CASE path = "/repo" -> <<"repo">>
      [] path = "/repo/sub" -> <<"repo", "sub">>
      [] path = "/other" -> <<"other">>
      [] path = "/repo/../other" -> <<"repo", "..", "other">>
      [] path = "/repo-b" -> <<"repo-b">>
      [] OTHER -> <<>>

\* Path.resolve() of an absolute path in a tree without symbolic links
RECURSIVE resolve(_)
resolve(parts) ==
    IF parts = <<>> THEN <<>>
    ELSE LET before == resolve(SubSeq(parts, 1, Len(parts) - 1))
             last == parts[Len(parts)]
         IN  IF last = "." THEN before
             ELSE IF last = ".."
             THEN (IF before = <<>> THEN <<>> ELSE SubSeq(before, 1, Len(before) - 1))
             ELSE Append(before, last)

\* list.sort(key=, reverse=): xs ordered by keys, ascending or descending,
\* items with equal keys in their order in xs
StableSort(xs, keys, reverse) ==
    LET KeyLess(a, b) == a[1] < b[1] \/ (a[1] = b[1] /\ a[2] < b[2])
        Before(i, k) ==
            \/ IF reverse THEN KeyLess(keys[k], keys[i]) ELSE KeyLess(keys[i], keys[k])
            \/ keys[i] = keys[k] /\ i < k
        rank(i) == 1 + Cardinality({k \in 1..Len(xs) : Before(k, i)})
    IN  [n \in 1..Len(xs) |-> xs[CHOOSE i \in 1..Len(xs) : rank(i) = n]]

\* "\n".join(parts)
\* _flatten_content
_flatten_content(payload) ==
    LET content == DictGet(payload, "content")
        texts == IF content = None \/ content[1].t # "arr" THEN <<>>
                 ELSE [i \in 1..Len(content[1].xs) |->
                          IF content[1].xs[i].t = "obj"
                          THEN DictGet(content[1].xs[i].kv, "text") ELSE None]
        parts == SelectSeq(texts, LAMBDA text : IsStr(text) /\ text # Some(JStr("")))
    IN  strip(JoinLines([i \in 1..Len(parts) |-> parts[i][1].s]))

\* the rollout files in the order of sessions_dir.rglob("rollout-*.jsonl")
RolloutPaths == [i \in 1..MaxRollouts |-> CodexHome \o "/sessions/rollout-" \o ToString(i) \o ".jsonl"]

_iter_rollout_files == SelectSeq(RolloutPaths, LAMBDA path : path \in DOMAIN files)

\* with path.open("r", encoding="utf-8") as f: for line in f raises
\* UnicodeDecodeError on a file that holds bytes that are not UTF-8 (a file
\* shorter than one read buffer is decoded whole at the first read); the
\* except clauses catch OSError and JSONDecodeError only, so it propagates.
\* Some file of paths makes the read raise
UnicodeDecodeError(paths) ==
    \E i \in 1..Len(paths) : \E k \in 1..Len(files[paths[i]]) : files[paths[i]][k] = JournalLine.NotUtf8

\* _read_jsonl_first_meta: the payload of the first session_meta record,
\* None if there is none or a line is not JSON
_read_jsonl_first_meta(path) ==
    LET RECURSIVE FirstMetaFrom(_, _), MetaOrNext(_, _, _)
        FirstMetaFrom(lines, i) ==
            IF i > Len(lines) THEN None
            ELSE IF strip(lines[i]) = "" THEN FirstMetaFrom(lines, i + 1)
            ELSE MetaOrNext(lines, i, json_loads(strip(lines[i])))
        MetaOrNext(lines, i, obj) ==
            IF obj = None THEN None
            ELSE IF /\ obj[1].t = "obj"
                    /\ DictGet(obj[1].kv, "type") = Some(JStr("session_meta"))
                    /\ DictGet(obj[1].kv, "payload") # None
                    /\ DictGet(obj[1].kv, "payload")[1].t = "obj"
            THEN Some(DictGet(obj[1].kv, "payload")[1].kv)
            ELSE FirstMetaFrom(lines, i + 1)
    IN  FirstMetaFrom(files[path], 1)

\* text.strip().splitlines()[0][:120] on the texts of the messages
FirstLine120(text) ==
    CASE text = "hello\n there" -> "hello"
      [] OTHER -> text

\* the record of line i is a message of a user, with this payload
UserMessage(obj) ==
    /\ obj[1].t = "obj"
    /\ DictGet(obj[1].kv, "type") = Some(JStr("response_item"))
    /\ DictGet(obj[1].kv, "payload") # None
    /\ DictGet(obj[1].kv, "payload")[1].t = "obj"
    /\ DictGet(DictGet(obj[1].kv, "payload")[1].kv, "type") = Some(JStr("message"))
    /\ DictGet(DictGet(obj[1].kv, "payload")[1].kv, "role") = Some(JStr("user"))

\* _read_first_user_title: the first line of the first user message with
\* text, None if there is none or a line is not JSON
_read_first_user_title(path) ==
    LET RECURSIVE FirstTitleFrom(_, _), TitleOrNext(_, _, _), TextOrNext(_, _, _)
        FirstTitleFrom(lines, i) ==
            IF i > Len(lines) THEN None
            ELSE IF strip(lines[i]) = "" THEN FirstTitleFrom(lines, i + 1)
            ELSE TitleOrNext(lines, i, json_loads(strip(lines[i])))
        TitleOrNext(lines, i, obj) ==
            IF obj = None THEN None
            ELSE IF ~UserMessage(obj) THEN FirstTitleFrom(lines, i + 1)
            ELSE TextOrNext(lines, i, _flatten_content(DictGet(obj[1].kv, "payload")[1].kv))
        TextOrNext(lines, i, text) ==
            IF text # "" THEN Some(FirstLine120(text)) ELSE FirstTitleFrom(lines, i + 1)
    IN  FirstTitleFrom(files[path], 1)

\* the value of a key of the meta if it is a string, None otherwise
StrOrNone(meta, key) ==
    IF IsStr(DictGet(meta, key)) THEN Some(DictGet(meta, key)[1].s) ELSE None

\* list_sessions: the session of this cwd is filtered out
FilteredOut(repo_root, include_all_repos, cwd) ==
    /\ ~include_all_repos
    /\ repo_root # None
    /\ cwd # None
    /\ cwd # Some("")
    /\ LET parents(path) == {SubSeq(path, 1, k) : k \in 0..(Len(path) - 1)}
           WithParents(path) == {path} \cup parents(path)
       IN  resolve(PathParts(repo_root[1])) \notin WithParents(resolve(PathParts(cwd[1])))

\* list_sessions: the summary of one rollout file, None if the file is
\* skipped
SessionSummary(path, repo_root, include_all_repos) ==
    LET SummaryOf(meta) ==
            IF meta = None \/ meta = Some(<<>>) THEN None
            ELSE IF ~IsStr(DictGet(meta[1], "id")) \/ DictGet(meta[1], "id") = Some(JStr("")) THEN None
            ELSE IF FilteredOut(repo_root, include_all_repos, StrOrNone(meta[1], "cwd")) THEN None
            ELSE Some([session_id |-> DictGet(meta[1], "id")[1].s,
                       started_at |-> _parse_dt(DictGet(meta[1], "timestamp")),
                       cwd |-> StrOrNone(meta[1], "cwd"),
                       originator |-> StrOrNone(meta[1], "originator"),
                       rollout_path |-> path,
                       title |-> _read_first_user_title(path)])
    IN  SummaryOf(_read_jsonl_first_meta(path))

\* sort_key with 0 for a session without started_at and nothing else
sort_keyTimeOnly(s) == <<0, IF s.started_at # None THEN s.started_at[1] ELSE 0>>

\* list_sessions: sort_key
sort_key(s) ==
    <<IF s.started_at # None THEN 1 ELSE 0, IF s.started_at # None THEN s.started_at[1] ELSE 0>>

\* summaries[:limit] for a limit that is not negative
list_sessions(repo_root, include_all_repos, limit) ==
    LET found == [i \in 1..Len(_iter_rollout_files) |->
                     SessionSummary(_iter_rollout_files[i], repo_root, include_all_repos)]
        Values(kept) == [i \in 1..Len(kept) |-> kept[i][1]]
        Sorted(summaries) == StableSort(summaries, [i \in 1..Len(summaries) |-> sort_key(summaries[i])], TRUE)
        Truncate(seq) == SubSeq(seq, 1, IF limit < Len(seq) THEN limit ELSE Len(seq))
    IN  Truncate(Sorted(Values(SelectSeq(found, LAMBDA summary : summary # None))))

\* list_sessions called by one of its callers (GET /codex/sessions passes the
\* repo root and a limit of 1 or more)
ListSessions(repo_root, include_all_repos, limit) ==
    /\ \E raised \in {UnicodeDecodeError(_iter_rollout_files)} :
           resp' = [op |-> "list_sessions", repo_root |-> repo_root,
                    include_all_repos |-> include_all_repos, limit |-> limit,
                    raised |-> raised,
                    ret |-> IF raised THEN <<>>
                            ELSE list_sessions(repo_root, include_all_repos, limit)]
    /\ UNCHANGED <<jobs, pc, readers, child, signals, budget, now, emitted>>
    /\ UNCHANGED <<orchVars, pipes>>

\* the sessions directories: up to n rollout files, in the order of rglob,
\* each with one of these contents
\* the files of a sessions directory
JournalFiles(dir) == [path \in {RolloutPaths[i] : i \in 1..Len(dir)} |->
                         dir[CHOOSE i \in 1..Len(dir) : RolloutPaths[i] = path]]

\* find_rollout_by_session_id: the first rollout file whose meta has this id
find_rollout_by_session_id(session_id) ==
    LET HasId(meta) == meta # None /\ DictGet(meta[1], "id") = Some(JStr(session_id))
        hits == SelectSeq(_iter_rollout_files, LAMBDA path : HasId(_read_jsonl_first_meta(path)))
    IN  IF hits = <<>> THEN None ELSE Some(hits[1])

\* include_roles or {"user", "assistant", "developer"}
RolesOrDefault(include_roles) ==
    IF include_roles = None \/ include_roles = Some({})
    THEN {"user", "assistant", "developer"} ELSE include_roles[1]

\* read_session_messages: the record of a line passes the tests of the loop
KeptMessage(obj, roles) ==
    /\ obj[1].t = "obj"
    /\ DictGet(obj[1].kv, "type") = Some(JStr("response_item"))
    /\ DictGet(obj[1].kv, "payload") # None
    /\ DictGet(obj[1].kv, "payload")[1].t = "obj"
    /\ DictGet(DictGet(obj[1].kv, "payload")[1].kv, "type") = Some(JStr("message"))
    /\ IsStr(DictGet(DictGet(obj[1].kv, "payload")[1].kv, "role"))
    /\ DictGet(DictGet(obj[1].kv, "payload")[1].kv, "role")[1].s \in roles
    /\ _flatten_content(DictGet(obj[1].kv, "payload")[1].kv) # ""

\* the ConversationMessage appended for a record
ConversationMessage(session_id, obj) ==
    [session_id |-> session_id,
     timestamp |-> _parse_dt(DictGet(obj[1].kv, "timestamp")),
     role |-> DictGet(DictGet(obj[1].kv, "payload")[1].kv, "role")[1].s,
     text |-> _flatten_content(DictGet(obj[1].kv, "payload")[1].kv),
     phase |-> StrOrNone(DictGet(obj[1].kv, "payload")[1].kv, "phase")]

\* the key of messages.sort: the seconds of the timestamp, 0.0 without one
\* read_session_messages. MessagesFrom is the loop from line i on; raised
\* tells that json.loads raised JSONDecodeError and the loop was left: the
\* except clause returns the messages as they were appended, the sort is
\* reached only when no line raised
read_session_messages(session_id, include_roles) ==
    LET roles == RolesOrDefault(include_roles)
        RECURSIVE MessagesFrom(_, _, _), MessageOrNext(_, _, _, _)
        MessagesFrom(lines, i, messages) ==
            IF i > Len(lines) THEN [messages |-> messages, raised |-> FALSE]
            ELSE IF strip(lines[i]) = "" THEN MessagesFrom(lines, i + 1, messages)
            ELSE MessageOrNext(lines, i, messages, json_loads(strip(lines[i])))
        MessageOrNext(lines, i, messages, obj) ==
            IF obj = None THEN [messages |-> messages, raised |-> TRUE]
            ELSE IF ~KeptMessage(obj, roles)
            THEN MessagesFrom(lines, i + 1, messages)
            ELSE MessagesFrom(lines, i + 1,
                              Append(messages, ConversationMessage(session_id, obj)))
        message_key(m) == <<0, IF m.timestamp # None THEN m.timestamp[1] ELSE 0>>
        Returned(read) ==
            IF read.raised THEN read.messages
            ELSE StableSort(read.messages,
                            [i \in 1..Len(read.messages) |-> message_key(read.messages[i])], FALSE)
        ReadFrom(path) ==
            IF path = None THEN <<>> ELSE Returned(MessagesFrom(files[path[1]], 1, <<>>))
    IN  ReadFrom(find_rollout_by_session_id(session_id))

\* read_session_messages called by GET /codex/sessions/{session_id} or by
\* the orchestrator; find_rollout_by_session_id reads the rollout files up to
\* the first with this id
ReadSessionMessages(session_id, include_roles) ==
    /\ LET Scanned(found) ==
               IF found = None THEN _iter_rollout_files
               ELSE SubSeq(_iter_rollout_files, 1,
                           CHOOSE i \in 1..Len(_iter_rollout_files) : _iter_rollout_files[i] = found[1])
       IN  \E raised \in {UnicodeDecodeError(Scanned(find_rollout_by_session_id(session_id)))} :
               resp' = [op |-> "read_session_messages", session_id |-> session_id,
                        include_roles |-> include_roles,
                        raised |-> raised,
                        ret |-> IF raised THEN <<>>
                                ELSE read_session_messages(session_id, include_roles)]
    /\ UNCHANGED <<jobs, pc, readers, child, signals, budget, now, emitted>>
    /\ UNCHANGED <<orchVars, pipes>>

\* the rollout files of the session "a": the meta line and up to n records

\* ${CODEX_HOME}/history.jsonl
HistoryPath == CodexHome \o "/history.jsonl"

\* float() on the numerals that history lines carry in a string, None for
\* ValueError
FloatOfStr(s) ==
    CASE s = "12" -> Some(12)
      [] OTHER -> None

\* float(ts): None for TypeError and ValueError
float(ts) ==
    IF ts = None THEN None
    ELSE CASE ts[1].t = "num" -> Some(ts[1].n)
           [] ts[1].t = "bool" -> Some(IF ts[1].b THEN 1 ELSE 0)
           [] ts[1].t = "str" -> FloatOfStr(ts[1].s)
           [] OTHER -> None

\* read_prompt_history. EntriesFrom is the loop from line i on; raised tells
\* that json.loads raised JSONDecodeError and the loop was left: the except
\* clause returns the entries as they were appended, the sort is reached only
\* when no line raised
read_prompt_history(limit) ==
    LET RECURSIVE EntriesFrom(_, _, _), EntryOrNext(_, _, _, _), Appended(_, _, _)
        EntriesFrom(lines, i, entries) ==
            IF i > Len(lines) THEN [entries |-> entries, raised |-> FALSE]
            ELSE IF strip(lines[i]) = "" THEN EntriesFrom(lines, i + 1, entries)
            ELSE EntryOrNext(lines, i, entries, json_loads(strip(lines[i])))
        EntryOrNext(lines, i, entries, obj) ==
            IF obj = None THEN [entries |-> entries, raised |-> TRUE]
            ELSE IF obj[1].t # "obj" THEN EntriesFrom(lines, i + 1, entries)
            ELSE IF ~IsStr(DictGet(obj[1].kv, "session_id")) \/ ~IsStr(DictGet(obj[1].kv, "text"))
            THEN EntriesFrom(lines, i + 1, entries)
            ELSE IF float(DictGet(obj[1].kv, "ts")) = None
            THEN EntriesFrom(lines, i + 1, entries)
            ELSE Appended(lines, i, Append(entries,
                                           [session_id |-> DictGet(obj[1].kv, "session_id")[1].s,
                                            ts |-> float(DictGet(obj[1].kv, "ts"))[1],
                                            text |-> DictGet(obj[1].kv, "text")[1].s]))
        Appended(lines, i, appended) ==
            IF Len(appended) >= limit THEN [entries |-> appended, raised |-> FALSE]
            ELSE EntriesFrom(lines, i + 1, appended)
        Returned(read) ==
            IF read.raised THEN read.entries
            ELSE StableSort(read.entries,
                            [i \in 1..Len(read.entries) |-> <<0, read.entries[i].ts>>], FALSE)
    IN  IF HistoryPath \notin DOMAIN files THEN <<>>
        ELSE Returned(EntriesFrom(files[HistoryPath], 1, <<>>))

\* read_prompt_history called with a limit of 1 or more
ReadPromptHistory(limit) ==
    /\ LET read == IF HistoryPath \in DOMAIN files THEN <<HistoryPath>> ELSE <<>>
       IN  resp' = [op |-> "read_prompt_history", limit |-> limit,
                    raised |-> UnicodeDecodeError(read),
                    ret |-> IF UnicodeDecodeError(read) THEN <<>> ELSE read_prompt_history(limit)]
    /\ UNCHANGED <<jobs, pc, readers, child, signals, budget, now, emitted>>
    /\ UNCHANGED <<orchVars, pipes>>

\* the contents of history.jsonl: up to n lines
\* render_transcript that goes on to the next message after a block that
\* does not fit
render_transcriptSkipping(messages, max_chars) ==
    LET piece(msg) ==
            <<"[">> \o Chars(msg.role) \o <<"]">>
            \o (IF msg.phase # None /\ msg.phase # Some("")
                THEN <<"[">> \o Chars(msg.phase[1]) \o <<"]">> ELSE <<>>)
            \o <<"\n">> \o StripChars(Chars(msg.text)) \o <<"\n">>
        RECURSIVE ChunksFrom(_, _, _)
        ChunksFrom(i, remaining, chunks) ==
            IF i > Len(messages) THEN chunks
            ELSE IF Len(piece(messages[i])) > remaining THEN ChunksFrom(i + 1, remaining, chunks)
            ELSE ChunksFrom(i + 1, remaining - Len(piece(messages[i])),
                            Append(chunks, piece(messages[i])))
        RECURSIVE Joined(_)
        Joined(chunks) ==
            IF Len(chunks) = 1 THEN chunks[1]
            ELSE chunks[1] \o <<"\n">> \o Joined(Tail(chunks))
        kept == ChunksFrom(1, max_chars, <<>>)
    IN  IF kept = <<>> THEN <<>> ELSE StripChars(Joined(kept))

\* render_transcript: the string returned, as its characters. piece is the
\* block of a message, ChunksFrom the loop from message i on
render_transcript(messages, max_chars) ==
    LET piece(msg) ==
            <<"[">> \o Chars(msg.role) \o <<"]">>
            \o (IF msg.phase # None /\ msg.phase # Some("")
                THEN <<"[">> \o Chars(msg.phase[1]) \o <<"]">> ELSE <<>>)
            \o <<"\n">> \o StripChars(Chars(msg.text)) \o <<"\n">>
        RECURSIVE ChunksFrom(_, _, _)
        ChunksFrom(i, remaining, chunks) ==
            IF i > Len(messages) THEN chunks
            ELSE IF Len(piece(messages[i])) > remaining THEN chunks
            ELSE ChunksFrom(i + 1, remaining - Len(piece(messages[i])),
                            Append(chunks, piece(messages[i])))
        RECURSIVE Joined(_)
        Joined(chunks) ==
            IF Len(chunks) = 1 THEN chunks[1]
            ELSE chunks[1] \o <<"\n">> \o Joined(Tail(chunks))
        kept == ChunksFrom(1, max_chars, <<>>)
    IN  IF kept = <<>> THEN <<>> ELSE StripChars(Joined(kept))

\* render_transcript applied to the arguments of a call
RenderTranscript ==
    /\ resp.op = "call"
    /\ resp' = [op |-> "render_transcript", messages |-> resp.messages, max_chars |-> resp.max_chars,
                ret |-> render_transcript(resp.messages, resp.max_chars)]
    /\ UNCHANGED <<jobs, pc, readers, child, signals, budget, now, emitted>>
    /\ UNCHANGED <<orchVars, pipes>>

\* --------------------------------------------------------- specification
\* CodexHeadlessRunner.__init__: an empty registry, no task, no child
Init ==
    /\ jobs = [j \in {} |-> None]
    /\ pc = [j \in JobIds |-> "none"]
    /\ readers = [j \in JobIds |-> {}]
    /\ child = [j \in JobIds |-> "none"]
    /\ signals = [j \in JobIds |-> 0]
    /\ resp = NoResponse
    /\ budget = [creates |-> MaxJobs, lines |-> 0]
    /\ now = 0
    /\ emitted = [j \in JobIds |-> [s \in Streams |-> <<>>]]
    /\ artifacts = [j \in {} |-> None]
    /\ finalizer = [j \in JobIds |-> "none"]
    /\ files = [f \in {} |-> None]
    /\ repo = {}
    /\ git_runs = 0
    /\ pipes = NoPipes

Next ==
    \/ \E req \in ExecRequests : codex_exec(req)
    \/ \E id \in JobIds, tail \in {MaxOutputLines} : codex_job(id, tail)
    \/ \E id \in JobIds : codex_cancel(id)
    \/ \E j \in JobIds : RunJobStart(j)
    \/ \E j \in JobIds : SpawnOk(j)
    \/ \E j \in JobIds : SpawnFail(j)
    \/ \E j \in JobIds : DrainRaise(j)
    \/ \E j \in JobIds, s \in Streams : ReadEOF(j, s)
    \/ \E j \in JobIds, s \in Streams : ReadRaise(j, s)
    \/ \E j \in JobIds : ChildExit(j)
    \/ \E j \in JobIds, rc \in ExitCodes : RecordExit(j, rc)

\* the jobs, with children that write nothing and a clock that stands
Spec == Init /\ [][Next]_vars

\* time passes
Tick ==
    /\ now < MaxClock
    /\ now' = now + 1
    /\ resp' = NoResponse
    /\ UNCHANGED <<jobs, pc, readers, child, signals, budget, emitted>>
    /\ UNCHANGED <<orchVars, pipes>>

InitOutput ==
    /\ jobs = [j \in {} |-> None]
    /\ pc = [j \in JobIds |-> "none"]
    /\ readers = [j \in JobIds |-> {}]
    /\ child = [j \in JobIds |-> "none"]
    /\ signals = [j \in JobIds |-> 0]
    /\ resp = NoResponse
    /\ budget = [creates |-> 1, lines |-> MaxLines]
    /\ now = 0
    /\ emitted = [j \in JobIds |-> [s \in Streams |-> <<>>]]
    /\ artifacts = [j \in {} |-> None]
    /\ finalizer = [j \in JobIds |-> "none"]
    /\ files = [f \in {} |-> None]
    /\ repo = {}
    /\ git_runs = 0
    /\ pipes = NoPipes

\* one job whose child writes up to MaxLines lines
SpecOutput ==
    InitOutput /\ [][
        \/ \E req \in ExecRequests : codex_exec(req)
        \/ \E id \in JobIds, tail \in {MaxOutputLines} : codex_job(id, tail)
        \/ \E id \in JobIds : codex_cancel(id)
        \/ \E j \in JobIds : RunJobStart(j)
        \/ \E j \in JobIds : SpawnOk(j)
        \/ \E j \in JobIds : SpawnFail(j)
        \/ \E j \in JobIds : DrainRaise(j)
        \/ \E j \in JobIds, text \in StdoutLines : ReadLine(j, "stdout", text)
        \/ \E j \in JobIds, text \in StderrLines : ReadLine(j, "stderr", text)
        \/ \E j \in JobIds, s \in Streams : ReadEOF(j, s)
        \/ \E j \in JobIds, s \in Streams : ReadRaise(j, s)
        \/ \E j \in JobIds : ChildExit(j)
        \/ \E j \in JobIds, rc \in ExitCodes : RecordExit(j, rc)
    ]_vars

InitTimed ==
    /\ jobs = [j \in {} |-> None]
    /\ pc = [j \in JobIds |-> "none"]
    /\ readers = [j \in JobIds |-> {}]
    /\ child = [j \in JobIds |-> "none"]
    /\ signals = [j \in JobIds |-> 0]
    /\ resp = NoResponse
    /\ budget = [creates |-> 1, lines |-> MaxTimedLines]
    /\ now = 0
    /\ emitted = [j \in JobIds |-> [s \in Streams |-> <<>>]]
    /\ artifacts = [j \in {} |-> None]
    /\ finalizer = [j \in JobIds |-> "none"]
    /\ files = [f \in {} |-> None]
    /\ repo = {}
    /\ git_runs = 0
    /\ pipes = NoPipes

\* one job whose child writes up to MaxTimedLines lines, with a running clock
SpecTimed ==
    InitTimed /\ [][
        \/ Next
        \/ Tick
        \/ \E j \in JobIds : ReadLine(j, "stdout", "{\"task_id\":\"t1\"}")
        \/ \E j \in JobIds : ReadLine(j, "stderr", "warning: slow")
    ]_vars

\* one job whose child writes up to MaxTimedLines lines, and callers of
\* get_job
SpecSnapshot ==
    InitTimed /\ [][
        \/ Next
        \/ \E j \in JobIds : ReadLine(j, "stdout", "{\"task_id\":\"t1\"}")
        \/ \E j \in JobIds : ReadLine(j, "stderr", "warning: slow")
        \/ \E id \in JobIds : GetJob(id)
    ]_vars

InitOrchestrator ==
    /\ jobs = [j \in {} |-> None]
    /\ pc = [j \in JobIds |-> "none"]
    /\ readers = [j \in JobIds |-> {}]
    /\ child = [j \in JobIds |-> "none"]
    /\ signals = [j \in JobIds |-> 0]
    /\ resp = NoResponse
    /\ budget = [creates |-> 1, lines |-> MaxTimedLines]
    /\ now = 0
    /\ emitted = [j \in JobIds |-> [s \in Streams |-> <<>>]]
    /\ artifacts = [j \in {} |-> None]
    /\ finalizer = [j \in JobIds |-> "none"]
    /\ files = [f \in {} |-> None]
    /\ repo = {}
    /\ git_runs = 0
    /\ pipes = NoPipes

NextOrchestrator ==
    \/ Next
    \/ \E session_id \in SessionIds, prompt \in Prompts, mode \in RunModes, transcript \in Transcripts :
           start_insights_run(session_id, prompt, mode, transcript)
    \/ \E session_id \in SessionIds, insight \in {"{}"}, mode \in RunModes, transcript \in Transcripts :
           start_proposal_run(session_id, insight, None, mode, transcript)
    \/ \E j \in JobIds : ReadLine(j, "stdout", "{\"task_id\":\"t1\"}")
    \/ \E j \in JobIds : ReadLine(j, "stderr", "warning: slow")
    \/ \E j \in JobIds, text \in LastMessages : ChildWritesLastMessage(j, text)
    \/ \E j \in JobIds : _finalize_insights(j)
    \/ \E j \in JobIds : _finalize_proposal(j)

\* one job, started by POST /codex/exec or by one of the two runs, its child
\* and its finalizer
SpecOrchestrator == InitOrchestrator /\ [][NextOrchestrator]_vars

\* the same under the scheduling of the event loop: a task that can run is
\* run, so the supervisor of a job, each of its two readers and its finalizer
\* take their next step; a child that runs comes to its end
SpecLive ==
    /\ InitOrchestrator
    /\ [][NextOrchestrator]_vars
    /\ \A j \in JobIds :
           /\ WF_vars(RunJobStart(j) \/ SpawnOk(j) \/ SpawnFail(j) \/ DrainRaise(j)
                      \/ \E rc \in ExitCodes : RecordExit(j, rc))
           /\ \A s \in Streams : WF_vars(ReadEOF(j, s) \/ ReadRaise(j, s))
           /\ WF_vars(ChildExit(j))
           /\ WF_vars(_finalize_insights(j))
           /\ WF_vars(_finalize_proposal(j))

InitCommand ==
    /\ jobs = [j \in {} |-> None]
    /\ pc = [j \in JobIds |-> "none"]
    /\ readers = [j \in JobIds |-> {}]
    /\ child = [j \in JobIds |-> "none"]
    /\ signals = [j \in JobIds |-> 0]
    /\ resp = NoResponse
    /\ budget = [creates |-> 1, lines |-> 0]
    /\ now = 0
    /\ emitted = [j \in JobIds |-> [s \in Streams |-> <<>>]]
    /\ artifacts = [j \in {} |-> None]
    /\ finalizer = [j \in JobIds |-> "none"]
    /\ files = [f \in {} |-> None]
    /\ repo = {}
    /\ git_runs = 0
    /\ pipes = NoPipes

\* one job, created with any of the options of create_job
SpecCommand ==
    InitCommand /\ [][
        \/ Next
        \/ \E req \in CommandRequests : CreateJob(req)
    ]_vars

InitSessions ==
    /\ jobs = [j \in {} |-> None]
    /\ pc = [j \in JobIds |-> "none"]
    /\ readers = [j \in JobIds |-> {}]
    /\ child = [j \in JobIds |-> "none"]
    /\ signals = [j \in JobIds |-> 0]
    /\ resp = NoResponse
    /\ budget = [creates |-> 0, lines |-> 0]
    /\ now = 0
    /\ emitted = [j \in JobIds |-> [s \in Streams |-> <<>>]]
    /\ artifacts = [j \in {} |-> None]
    /\ finalizer = [j \in JobIds |-> "none"]
    /\ LET RolloutContents ==
               {<<JournalLine.MetaA>>, <<JournalLine.MetaB, JournalLine.MsgUser1>>, <<JournalLine.MetaC>>, <<JournalLine.MetaD>>, <<JournalLine.MetaE>>, <<JournalLine.MetaF>>,
               <<JournalLine.MetaG>>, <<JournalLine.MetaNoId>>, <<"not json", JournalLine.MetaA>>, <<"", JournalLine.MsgAssistant, JournalLine.MetaB, JournalLine.MsgUserNoTime>>}
       IN  files \in {JournalFiles(dir) : dir \in {[i \in 1..k |-> contents[i]] : k \in 0..MaxRollouts, contents \in [1..MaxRollouts -> RolloutContents]}}
    /\ repo = {}
    /\ git_runs = 0
    /\ pipes = NoPipes

\* a sessions directory that does not change, and the calls of list_sessions
SpecSessions ==
    InitSessions /\ [][
        \E repo_root \in {None, Some(RepoRoot)}, include_all_repos \in BOOLEAN, limit \in 1..(MaxRollouts + 1) :
            ListSessions(repo_root, include_all_repos, limit)
    ]_vars

InitMessages ==
    /\ jobs = [j \in {} |-> None]
    /\ pc = [j \in JobIds |-> "none"]
    /\ readers = [j \in JobIds |-> {}]
    /\ child = [j \in JobIds |-> "none"]
    /\ signals = [j \in JobIds |-> 0]
    /\ resp = NoResponse
    /\ budget = [creates |-> 0, lines |-> 0]
    /\ now = 0
    /\ emitted = [j \in JobIds |-> [s \in Streams |-> <<>>]]
    /\ artifacts = [j \in {} |-> None]
    /\ finalizer = [j \in JobIds |-> "none"]
    /\ LET RecordLines ==
               {JournalLine.MsgUser1, JournalLine.MsgAssistant, JournalLine.MsgUserNoTime, JournalLine.MsgUserOld, JournalLine.MsgTool, JournalLine.MsgEmpty, JournalLine.MsgUserTie,
               "not json", ""}
       IN  files \in {JournalFiles(<<lines>>) : lines \in {<<JournalLine.MetaA>> \o [i \in 1..k |-> records[i]] : k \in 0..MaxRecords, records \in [1..MaxRecords -> RecordLines]}}
    /\ repo = {}
    /\ git_runs = 0
    /\ pipes = NoPipes

\* the roles asked for: the default, those of the query string
\* one rollout file that does not change, and the calls of
\* read_session_messages
SpecMessages ==
    InitMessages /\ [][
        \E session_id \in {"a", "b"},
           include_roles \in {None, Some({}), Some({"user"}), Some({"assistant", "tool"})} :
            ReadSessionMessages(session_id, include_roles)
    ]_vars

InitHistory ==
    /\ jobs = [j \in {} |-> None]
    /\ pc = [j \in JobIds |-> "none"]
    /\ readers = [j \in JobIds |-> {}]
    /\ child = [j \in JobIds |-> "none"]
    /\ signals = [j \in JobIds |-> 0]
    /\ resp = NoResponse
    /\ budget = [creates |-> 0, lines |-> 0]
    /\ now = 0
    /\ emitted = [j \in JobIds |-> [s \in Streams |-> <<>>]]
    /\ artifacts = [j \in {} |-> None]
    /\ finalizer = [j \in JobIds |-> "none"]
    /\ LET HistoryLines ==
               {JournalLine.HistS1, JournalLine.HistS2, JournalLine.HistS3, JournalLine.HistBad, JournalLine.HistTextTs, JournalLine.HistNoTs, JournalLine.HistWordTs, JournalLine.HistArray,
               "not json", ""}
       IN  files \in {[path \in {} |-> <<>>]}
                      \cup {[path \in {HistoryPath} |-> lines] : lines \in {[i \in 1..k |-> hist[i]] : k \in 0..MaxHistoryLines, hist \in [1..MaxHistoryLines -> HistoryLines]}}
    /\ repo = {}
    /\ git_runs = 0
    /\ pipes = NoPipes

\* a history.jsonl that does not change, or none, and the calls of
\* read_prompt_history
SpecHistory ==
    InitHistory /\ [][
        \E limit \in 1..(MaxHistoryLines + 1) : ReadPromptHistory(limit)
    ]_vars

InitMalformed ==
    /\ jobs = [j \in {} |-> None]
    /\ pc = [j \in JobIds |-> "none"]
    /\ readers = [j \in JobIds |-> {}]
    /\ child = [j \in JobIds |-> "none"]
    /\ signals = [j \in JobIds |-> 0]
    /\ resp = NoResponse
    /\ budget = [creates |-> 0, lines |-> 0]
    /\ now = 0
    /\ emitted = [j \in JobIds |-> [s \in Streams |-> <<>>]]
    /\ artifacts = [j \in {} |-> None]
    /\ finalizer = [j \in JobIds |-> "none"]
    /\ \E k \in 0..MaxRollouts :
           \E dir \in [1..k -> {<<JournalLine.MetaA>>, <<JournalLine.MetaB, JournalLine.MsgUser1>>,
                                <<JournalLine.NotUtf8>>, <<JournalLine.MetaA, JournalLine.NotUtf8>>,
                                <<"not json", JournalLine.MetaA>>}] :
               \E history \in {<<>>, <<<<JournalLine.HistS1>>>>, <<<<JournalLine.HistS1, JournalLine.NotUtf8>>>>,
                                <<<<"not json", JournalLine.HistS2>>>>} :
                   files = [path \in {RolloutPaths[i] : i \in 1..k} \cup {HistoryPath : i \in 1..Len(history)} |->
                               IF path = HistoryPath THEN history[1]
                               ELSE dir[CHOOSE i \in 1..k : RolloutPaths[i] = path]]
    /\ repo = {}
    /\ git_runs = 0
    /\ pipes = NoPipes

\* a codex home that does not change, with rollout files and a history.jsonl
\* that may hold a line that is not JSON or bytes that are not UTF-8, and the
\* calls of the readers
SpecMalformed ==
    InitMalformed /\ [][
        \/ \E repo_root \in {None, Some(RepoRoot)}, include_all_repos \in BOOLEAN :
               ListSessions(repo_root, include_all_repos, MaxRollouts)
        \/ \E session_id \in {"a", "b"} : ReadSessionMessages(session_id, None)
        \/ ReadPromptHistory(MaxHistoryLines)
    ]_vars

\* the arguments of a call of render_transcript
InitTranscript ==
    /\ jobs = [j \in {} |-> None]
    /\ pc = [j \in JobIds |-> "none"]
    /\ readers = [j \in JobIds |-> {}]
    /\ child = [j \in JobIds |-> "none"]
    /\ signals = [j \in JobIds |-> 0]
    /\ resp \in LET Messages ==
                        {[session_id |-> "a", timestamp |-> None, role |-> "user", text |-> "hi", phase |-> None],
                         [session_id |-> "a", timestamp |-> None, role |-> "assistant", text |-> " x ", phase |-> Some("final")],
                         [session_id |-> "a", timestamp |-> None, role |-> "user", text |-> "", phase |-> Some("")],
                         [session_id |-> "a", timestamp |-> None, role |-> "assistant", text |-> "hi", phase |-> None]}
                 IN  {[op |-> "call", messages |-> [i \in 1..k |-> messages[i]], max_chars |-> max_chars] :
                         k \in 0..MaxMessages, messages \in [1..MaxMessages -> Messages],
                         max_chars \in 0..MaxChars}
    /\ budget = [creates |-> 0, lines |-> 0]
    /\ now = 0
    /\ emitted = [j \in JobIds |-> [s \in Streams |-> <<>>]]
    /\ artifacts = [j \in {} |-> None]
    /\ finalizer = [j \in JobIds |-> "none"]
    /\ files = [path \in {} |-> <<>>]
    /\ repo = {}
    /\ git_runs = 0
    /\ pipes = NoPipes

\* a call of render_transcript with a list of up to MaxMessages messages, with
\* and without phase and text, and a max_chars
SpecTranscript == InitTranscript /\ [][RenderTranscript]_vars

\* the events _extract_task_id is called with: objects of up to MaxPairs
\* members and arrays of up to MaxElems elements whose values are scalars,
\* objects of one member and an array of one object
InitTaskId ==
    /\ jobs = [j \in {} |-> None]
    /\ pc = [j \in JobIds |-> "none"]
    /\ readers = [j \in JobIds |-> {}]
    /\ child = [j \in JobIds |-> "none"]
    /\ signals = [j \in JobIds |-> 0]
    /\ LET Scalars == {JStr("t1"), JStr(" t2 "), JStr(" "), JNum(1)}
           Values == Scalars
                     \cup {JObj(<<KV(k, v)>>) : k \in {"taskID", "msg"}, v \in Scalars}
                     \cup {JArr(<<JObj(<<KV("task_id", JStr("t3"))>>)>>)}
           Keys == {"task_id", "taskId", "taskID", "msg"}
           Objects == {JObj([i \in 1..n |-> KV(ks[i], vs[i])]) :
                          n \in 0..MaxPairs,
                          ks \in {f \in [1..MaxPairs -> Keys] : \A a, b \in 1..MaxPairs : a # b => f[a] # f[b]},
                          vs \in [1..MaxPairs -> Values]}
           Arrays == {JArr(SubSeq(xs, 1, n)) : n \in 0..MaxElems, xs \in [1..MaxElems -> Values]}
       IN  resp \in {[op |-> "call", event |-> event] : event \in Objects \cup Arrays}
    /\ budget = [creates |-> 0, lines |-> 0]
    /\ now = 0
    /\ emitted = [j \in JobIds |-> [s \in Streams |-> <<>>]]
    /\ artifacts = [j \in {} |-> None]
    /\ finalizer = [j \in JobIds |-> "none"]
    /\ files = [f \in {} |-> None]
    /\ repo = {}
    /\ git_runs = 0
    /\ pipes = NoPipes

SpecTaskId == InitTaskId /\ [][ExtractTaskId]_vars

\* two jobs, started by an insights run or by POST /codex/proposals/run,
\* their children, which write a last message or none and exit with any
\* code, their finalizers, and POST /codex/proposals/{proposal_id}/apply
NextWorkflow ==
    \/ \E session_id \in SessionIds, prompt \in Prompts :
           start_insights_run(session_id, prompt, "resume", "")
    \/ \E session_id \in SessionIds \cup {"../runs"},
          insight_artifact_id \in {"u" \o ToString(j) : j \in JobIds} \cup {UuidLastGroup(j) : j \in JobIds} :
           run_proposal(session_id, insight_artifact_id, "resume", "")
    \/ \E j \in JobIds : RunJobStart(j)
    \/ \E j \in JobIds : SpawnOk(j)
    \/ \E j \in JobIds,
          text \in {"not json", "{\"insights_markdown\":\" # Tips \"}",
                    "{\"diff\":\"--- a/AGENTS.md\\n+++ b/AGENTS.md\\n\",\"summary\":\"s\"}"} :
           ChildWritesLastMessage(j, text)
    \/ \E j \in JobIds : ChildExit(j)
    \/ \E j \in JobIds, s \in Streams : ReadEOF(j, s)
    \/ \E j \in JobIds, rc \in ExitCodes : RecordExit(j, rc)
    \/ \E j \in JobIds : _finalize_insights(j)
    \/ \E j \in JobIds : _finalize_proposal(j)
    \/ \E j \in JobIds, applies \in BOOLEAN : apply_proposal("u" \o ToString(j), TRUE, applies)

SpecWorkflow == Init /\ [][NextWorkflow]_vars

\* one job whose task and whose child's output are measured against the
\* room of the pipes
InitPipes ==
    /\ jobs = [j \in {} |-> None]
    /\ pc = [j \in JobIds |-> "none"]
    /\ readers = [j \in JobIds |-> {}]
    /\ child = [j \in JobIds |-> "none"]
    /\ signals = [j \in JobIds |-> 0]
    /\ resp = NoResponse
    /\ budget = [creates |-> 1, lines |-> 0]
    /\ now = 0
    /\ emitted = [j \in JobIds |-> [s \in Streams |-> <<>>]]
    /\ artifacts = [j \in {} |-> None]
    /\ finalizer = [j \in JobIds |-> "none"]
    /\ files = [f \in {} |-> None]
    /\ repo = {}
    /\ git_runs = 0
    /\ pipes = NoPipes

NextPipes ==
    \/ \E req \in ExecRequests : codex_exec(req)
    \/ \E j \in JobIds : RunJobStart(j)
    \/ \E j \in JobIds, task \in 1..MaxTask,
          program \in {SubSeq(units, 1, n) : units \in [1..MaxProgram -> {"stdin"} \cup Streams], n \in 0..MaxProgram} :
           SpawnPipes(j, task, program)
    \/ \E j \in JobIds : DrainReturns(j)
    \/ \E j \in JobIds : ChildStep(j)
    \/ \E j \in JobIds, s \in Streams : ReadStream(j, s)
    \/ \E j \in JobIds, rc \in ExitCodes : RecordExit(j, rc)

\* the event loop runs every task that can run, and the operating system
\* every child that can: a step that is possible is taken
SpecPipes == InitPipes /\ [][NextPipes]_vars /\ WF_vars(NextPipes)

InitApply ==
    /\ jobs = [j \in {} |-> None]
    /\ pc = [j \in JobIds |-> "none"]
    /\ readers = [j \in JobIds |-> {}]
    /\ child = [j \in JobIds |-> "none"]
    /\ signals = [j \in JobIds |-> 0]
    /\ resp = NoResponse
    /\ budget = [creates |-> 0, lines |-> 0]
    /\ now = 0
    /\ emitted = [j \in JobIds |-> [s \in Streams |-> <<>>]]
    /\ artifacts = [j \in {} |-> None]
    /\ finalizer = [j \in JobIds |-> "none"]
    /\ files \in {[f \in {} |-> None]}
                 \cup {[f \in {proposal_diff_path("p1")} |-> text] : text \in DiffTexts}
    /\ repo = {}
    /\ git_runs = 0
    /\ pipes = NoPipes

\* a proposal.diff of any text, read and applied
SpecApply ==
    InitApply /\ [][
        \/ \E proposal_id \in ProposalIds : get_proposal(proposal_id)
        \/ \E proposal_id \in ProposalIds, confirm \in BOOLEAN, applies \in BOOLEAN :
               apply_proposal(proposal_id, confirm, applies)
    ]_vars

\* ----------------------------------------------------------------- claims
Terminal == {"succeeded", "failed", "canceled"}

LegalTransitions ==
    {<<"queued", "running">>, <<"running", "succeeded">>,
     <<"running", "failed">>, <<"running", "canceled">>,
     <<"queued", "canceled">>}

\* C1: every change of a job's status is an edge of the DAG queued ->
\* running -> {succeeded, failed, canceled}, queued -> canceled; a terminal
\* status never changes.
C1_StatusDAG ==
    [][\A j \in DOMAIN jobs :
          j \in DOMAIN jobs' =>
              \/ jobs'[j].status = jobs[j].status
              \/ <<jobs[j].status, jobs'[j].status>> \in LegalTransitions]_vars

\* a job ran to succeeded while another was canceled and then recorded
C1_Witness ==
    \E j, k \in DOMAIN jobs :
        /\ jobs[j].status = "succeeded"
        /\ jobs[k].status = "canceled"
        /\ pc[k] = "done"

\* C2 as stated: returncode is null iff status is queued or running.
C2_ReturncodeNullIffActive ==
    \A j \in DOMAIN jobs :
        (jobs[j].returncode = None) <=> (jobs[j].status \in {"queued", "running"})

\* C2 amended: returncode is null iff status is queued or running, or status
\* is canceled and the supervisor has not yet recorded the child's exit
\* (finished_at is null); a succeeded or failed job has a returncode.
C2_ReturncodeNullUntilRecorded ==
    \A j \in DOMAIN jobs :
        (jobs[j].returncode = None) <=>
            \/ jobs[j].status \in {"queued", "running"}
            \/ jobs[j].status = "canceled" /\ jobs[j].finished_at = None

\* a canceled job whose child has not been waited for, next to a recorded one
C2_Witness ==
    \E j, k \in DOMAIN jobs :
        /\ jobs[j].status = "canceled"
        /\ jobs[j].returncode = None
        /\ jobs[k].status = "succeeded"
        /\ jobs[k].returncode = Some(0)

\* C3: once cancel_job returned true the status is canceled and stays
\* canceled; the supervisor, when the child exits, records returncode and
\* finished_at and leaves canceled in place whatever the return code.
C3_CanceledIsKept ==
    [][/\ (resp'.op = "cancel" /\ resp'.ok) =>
              jobs'[resp'.id].status = "canceled"
       /\ \A j \in DOMAIN jobs :
              jobs[j].status = "canceled" =>
                  /\ j \in DOMAIN jobs'
                  /\ jobs'[j].status = "canceled"
                  /\ (pc[j] = "wait" /\ pc'[j] = "done") =>
                         /\ jobs'[j].returncode # None
                         /\ jobs'[j].finished_at # None]_vars

\* a canceled job whose child then exited with 0 and was recorded
C3_Witness ==
    \E j \in DOMAIN jobs :
        /\ jobs[j].status = "canceled"
        /\ signals[j] = 1
        /\ jobs[j].returncode = Some(0)
        /\ jobs[j].finished_at # None

\* C4 as stated: a cancel issued after create_job returned and before the
\* child has exited returns true and sets status to canceled, also before
\* the supervisor has started or recorded the process handle.
C4_CancelBeforeExitSucceeds ==
    (resp.op = "cancel" /\ resp.id \in DOMAIN jobs /\ child[resp.id] # "exited")
        => (resp.ok /\ jobs[resp.id].status = "canceled")

\* cancel_job refuses: unknown id, terminal status, or no process handle
Refused(job_id) ==
    \/ job_id \notin DOMAIN jobs
    \/ jobs[job_id].status \in Terminal
    \/ jobs[job_id]._process = None

\* C5: cancel_job returns false and changes nothing when the id is unknown,
\* the status is terminal or there is no process handle; only otherwise it
\* sets canceled, sends SIGTERM and returns true.  DELETE answers 404
\* exactly when it returned false.
C5_CancelRefusals ==
    [][resp'.op = "cancel" =>
          /\ resp'.ok = ~Refused(resp'.id)
          /\ ~resp'.ok => (jobs' = jobs /\ signals' = signals)
          /\ resp'.ok =>
                /\ jobs' = [jobs EXCEPT ![resp'.id].status = "canceled"]
                /\ signals' = [signals EXCEPT ![resp'.id] = @ + 1]
                /\ resp'.body = [status |-> "canceled", id |-> resp'.id]
          /\ (resp'.code = 404) <=> ~resp'.ok
          /\ resp'.code \in {200, 404}]_vars

\* a second DELETE of a job whose first DELETE went through is answered 404
C5_Witness ==
    /\ resp.op = "cancel"
    /\ resp.code = 404
    /\ resp.id \in DOMAIN jobs
    /\ jobs[resp.id].status = "canceled"
    /\ signals[resp.id] = 1

\* C6 as stated: when spawning the child fails the job becomes failed, with
\* a null returncode and the error text in its stderr tail.
C6_SpawnFailureFails ==
    \A j \in DOMAIN jobs :
        (pc[j] = "raised" /\ jobs[j]._process = None) =>
            /\ jobs[j].status = "failed"
            /\ jobs[j].returncode = None
            /\ jobs[j].stderr_lines # <<>>

\* C7 as stated: when the stdin write or a stream reader raises, the job
\* becomes failed; no job is left running after its supervisor has ended.
C7_NoRunningAfterSupervisor ==
    \A j \in DOMAIN jobs :
        (pc[j] \in {"raised", "done"} /\ jobs[j]._process # None) =>
            jobs[j].status # "running"

\* C8: a recorded exit of a job that was not canceled gives succeeded iff
\* the return code is 0 and failed otherwise; succeeded implies returncode 0.
C8_StatusFollowsReturncode ==
    \A j \in DOMAIN jobs :
        /\ jobs[j].status = "succeeded" => jobs[j].returncode = Some(0)
        /\ jobs[j].status = "failed" =>
               (jobs[j].returncode # None /\ jobs[j].returncode # Some(0))
        /\ (jobs[j].returncode # None /\ jobs[j].status # "canceled") =>
               jobs[j].status = IF jobs[j].returncode = Some(0)
                                THEN "succeeded" ELSE "failed"

\* one job recorded with 0 and one recorded with a non-zero return code
C8_Witness ==
    \E j, k \in DOMAIN jobs :
        /\ jobs[j].status = "succeeded" /\ jobs[j].returncode = Some(0)
        /\ jobs[k].status = "failed" /\ jobs[k].returncode = Some(1)

\* C9: create_job registers the job and returns it queued, with started_at
\* null and no child; the child exists only once the supervisor made the
\* job running.  POST /codex/exec reports id, status, command and tails of
\* that very job.
C9_CreatedQueuedUnspawned ==
    /\ resp.op = "exec" =>
          /\ resp.code = 200
          /\ resp.id \in DOMAIN jobs
          /\ resp.body = CodexJobResponse(jobs[resp.id], None)
          /\ resp.body.id = resp.id
          /\ resp.body.status = "queued"
          /\ resp.body.started_at = None
          /\ jobs[resp.id]._process = None
          /\ child[resp.id] = "none"
          /\ pc[resp.id] = "created"
    /\ \A j \in JobIds :
          (child[j] # "none" \/ (j \in DOMAIN jobs /\ jobs[j]._process # None)) =>
              /\ j \in DOMAIN jobs
              /\ jobs[j].status # "queued"
              /\ jobs[j].started_at # None
              /\ pc[j] \notin {"none", "created", "spawn"}

\* a POST answered while an earlier job already has a live child
C9_Witness ==
    /\ resp.op = "exec"
    /\ \E k \in DOMAIN jobs :
          k # resp.id /\ child[k] = "alive" /\ jobs[k].status = "running"

\* C10: the registry never evicts or replaces a job, create_job yields an id
\* no earlier job has, and GET /codex/jobs/{id} answers 404 exactly for an
\* id that is not registered and otherwise reports the registered job.
C10_RegistryKeepsJobs ==
    [][/\ \A j \in DOMAIN jobs :
              /\ j \in DOMAIN jobs'
              /\ jobs'[j].id = j
              /\ jobs'[j].task = jobs[j].task
              /\ jobs'[j].command = jobs[j].command
              /\ jobs'[j].created_at = jobs[j].created_at
       /\ resp'.op = "exec" =>
              (resp'.id \notin DOMAIN jobs /\ resp'.id \in DOMAIN jobs')
       /\ resp'.op = "get" =>
              /\ (resp'.code = 404) <=> (resp'.id \notin DOMAIN jobs)
              /\ resp'.id \in DOMAIN jobs =>
                    /\ resp'.code = 200
                    /\ resp'.body.id = resp'.id
                    /\ resp'.body.command = jobs[resp'.id].command
                    /\ resp'.body.status = jobs[resp'.id].status]_vars

\* a GET of the first job, long finished, after a second job was created
C10_Witness ==
    /\ resp.op = "get"
    /\ resp.code = 200
    /\ jobs[resp.id].status \in Terminal
    /\ \E k \in DOMAIN jobs : k # resp.id /\ k > resp.id


\* ----------------------------------------------------------------- tails
\* text is a line read_stream appends to events: it parses as a JSON object
IsEventLine(text) ==
    json_loads(text) # None /\ json_loads(text)[1].t = "obj"

\* the JSON objects of the lines that parse as one, in the order of the lines
EventsOf(lines) ==
    LET objects == SelectSeq(lines, IsEventLine)
    IN  [i \in 1..Len(objects) |-> json_loads(objects[i])[1]]

\* new is old after deque.append(x) at capacity maxlen: below capacity x is
\* added at the end, at capacity the oldest item goes and the others keep
\* their order
AppendedTo(old, x, new, maxlen) ==
    /\ Len(new) <= maxlen
    /\ Len(old) < maxlen => new = Append(old, x)
    /\ (Len(old) = maxlen /\ maxlen > 0) => new = Append(Tail(old), x)

\* C11: each of the three tails of a job is never longer than the capacity
\* fixed at create_job and equals the last min(n, capacity) of the n items
\* appended to it; an append to a tail at capacity drops the oldest item and
\* keeps the others in order.
C11_TailsAreBoundedSuffixes ==
    /\ [](\A j \in DOMAIN jobs :
            LET job == jobs[j] IN
            /\ Len(job.stdout_lines) <= job.maxlen
            /\ Len(job.stderr_lines) <= job.maxlen
            /\ Len(job.events) <= job.maxlen
            /\ job.stdout_lines = LastN(emitted[j].stdout, job.maxlen)
            /\ job.stderr_lines = LastN(emitted[j].stderr, job.maxlen)
            /\ job.events = LastN(EventsOf(emitted[j].stdout), job.maxlen))
    /\ [][\A j \in DOMAIN jobs : \A text \in StdoutLines \cup StderrLines :
            LET job == jobs[j] IN
            /\ emitted'[j].stdout = Append(emitted[j].stdout, text) =>
                   /\ AppendedTo(job.stdout_lines, text,
                                 jobs'[j].stdout_lines, job.maxlen)
                   /\ IsEventLine(text) =>
                          AppendedTo(job.events, json_loads(text)[1],
                                     jobs'[j].events, job.maxlen)
            /\ emitted'[j].stderr = Append(emitted[j].stderr, text) =>
                   AppendedTo(job.stderr_lines, text,
                              jobs'[j].stderr_lines, job.maxlen)]_vars

\* a stdout tail at capacity that has dropped its oldest line, and an events
\* tail that has dropped its oldest event
C11_Witness ==
    \E j \in DOMAIN jobs :
        /\ jobs[j].maxlen > 0
        /\ Len(jobs[j].stdout_lines) = jobs[j].maxlen
        /\ Len(emitted[j].stdout) > jobs[j].maxlen
        /\ Len(jobs[j].events) = jobs[j].maxlen
        /\ Len(EventsOf(emitted[j].stdout)) > jobs[j].maxlen

\* C12: the events tail is, in order, the capacity-bounded suffix of the
\* stdout lines that parse as JSON objects; each event is added in the step
\* that appends its line to the stdout tail, and a stderr line or a stdout
\* line that is no JSON object leaves the events tail as it was.
C12_EventsFollowStdout ==
    /\ [](\A j \in DOMAIN jobs :
            /\ jobs[j].events =
                   LastN(EventsOf(emitted[j].stdout), jobs[j].maxlen)
            /\ \A i \in 1..Len(jobs[j].events) :
                   \E k \in 1..Len(emitted[j].stdout) :
                       /\ IsEventLine(emitted[j].stdout[k])
                       /\ json_loads(emitted[j].stdout[k])[1] = jobs[j].events[i])
    /\ [][\A j \in DOMAIN jobs :
            /\ emitted'[j].stderr # emitted[j].stderr =>
                   jobs'[j].events = jobs[j].events
            /\ emitted'[j].stdout # emitted[j].stdout =>
                   LET text == emitted'[j].stdout[Len(emitted'[j].stdout)]
                   IN  IF IsEventLine(text)
                       THEN jobs[j].maxlen > 0 =>
                                /\ jobs'[j].stdout_lines[Len(jobs'[j].stdout_lines)] = text
                                /\ jobs'[j].events[Len(jobs'[j].events)] =
                                       json_loads(text)[1]
                       ELSE jobs'[j].events = jobs[j].events
            /\ emitted'[j] = emitted[j] => jobs'[j].events = jobs[j].events]_vars

\* a job that has read a JSON object on stderr and a JSON array and plain
\* text on stdout, and holds events
C12_Witness ==
    \E j \in DOMAIN jobs :
        /\ \E k \in 1..Len(emitted[j].stderr) : json_loads(emitted[j].stderr[k]) # None
        /\ \E k \in 1..Len(emitted[j].stdout) : ~IsEventLine(emitted[j].stdout[k])
        /\ jobs[j].events # <<>>

\* the task id of the first of events[i..] that yields one, None if none does
RECURSIVE FirstExtracted(_, _)
FirstExtracted(events, i) ==
    IF i > Len(events) THEN None
    ELSE IF _extract_task_id(events[i]) # None THEN _extract_task_id(events[i])
    ELSE FirstExtracted(events, i + 1)

\* C13: a job's task_id is null until the first stdout event that yields a
\* non-empty task id, is that id from then on, and once set never changes.
C13_TaskIdSetOnce ==
    /\ [](\A j \in DOMAIN jobs :
            /\ jobs[j].task_id = FirstExtracted(EventsOf(emitted[j].stdout), 1)
            /\ jobs[j].task_id # None => jobs[j].task_id[1] # "")
    /\ [][\A j \in DOMAIN jobs :
            (j \in DOMAIN jobs' /\ jobs[j].task_id # None) =>
                jobs'[j].task_id = jobs[j].task_id]_vars

\* a job that keeps the id of its first event after events that yield
\* nothing and a later event that yields another id
C13_Witness ==
    \E j \in DOMAIN jobs :
        LET events == EventsOf(emitted[j].stdout) IN
        /\ jobs[j].task_id # None
        /\ Len(events) >= 2
        /\ _extract_task_id(events[1]) = None
        /\ \E k \in 2..Len(events) :
               /\ _extract_task_id(events[k]) # None
               /\ _extract_task_id(events[k]) # jobs[j].task_id

\* C14: created_at <= started_at <= finished_at once the later ones are set;
\* a line is appended to a tail only after started_at is stamped and while
\* finished_at is not, at a time that is not before started_at; the step
\* that stamps finished_at is taken with both readers at end of stream.
C14_AppendsBetweenStamps ==
    /\ [](\A j \in DOMAIN jobs :
            LET job == jobs[j] IN
            /\ job.started_at # None => job.created_at <= job.started_at[1]
            /\ job.finished_at # None =>
                   /\ job.started_at # None
                   /\ job.started_at[1] <= job.finished_at[1]
                   /\ readers[j] = {}
            /\ job.started_at = None =>
                   /\ emitted[j] = [s \in Streams |-> <<>>]
                   /\ job.stdout_lines = <<>>
                   /\ job.stderr_lines = <<>>
                   /\ job.events = <<>>)
    /\ [][\A j \in DOMAIN jobs :
            LET job == jobs[j] IN
            /\ (\/ emitted'[j] # emitted[j]
                \/ jobs'[j].stdout_lines # job.stdout_lines
                \/ jobs'[j].stderr_lines # job.stderr_lines
                \/ jobs'[j].events # job.events) =>
                   /\ job.started_at # None
                   /\ job.started_at[1] <= now
                   /\ job.finished_at = None
                   /\ jobs'[j].finished_at = None
            /\ (job.finished_at = None /\ jobs'[j].finished_at # None) =>
                   /\ readers[j] = {}
                   /\ jobs'[j].finished_at[1] = now]_vars

\* a finished job that holds output, stamped at three different times
C14_Witness ==
    \E j \in DOMAIN jobs :
        /\ jobs[j].finished_at # None
        /\ jobs[j].started_at # None
        /\ jobs[j].created_at < jobs[j].started_at[1]
        /\ jobs[j].started_at[1] < jobs[j].finished_at[1]
        /\ jobs[j].stdout_lines \o jobs[j].stderr_lines # <<>>

\* ------------------------------------------------------------- artifacts
\* the artifact files of the run registered for job j
ArtifactPaths(j) ==
    IF j \notin DOMAIN artifacts THEN {}
    ELSE IF artifacts[j].kind = "insights"
    THEN {artifacts[j].json_path, artifacts[j].markdown_path}
    ELSE {artifacts[j].diff_path, artifacts[j].meta_path}

\* C15: an artifact file of a run is written only by a finalizer step that
\* finds the job succeeded, with both readers at end of stream; a job that
\* is failed or canceled has no artifact file; and once an artifact file
\* exists nothing is appended to a tail of its job.
C15_ArtifactsOnlyAfterSuccess ==
    /\ [](\A j \in DOMAIN jobs :
            ArtifactPaths(j) \cap DOMAIN files # {} =>
                /\ jobs[j].status = "succeeded"
                /\ finalizer[j] = "done"
                /\ readers[j] = {})
    /\ [][\A j \in DOMAIN jobs :
            /\ ArtifactPaths(j) \cap DOMAIN files' # ArtifactPaths(j) \cap DOMAIN files =>
                   /\ jobs[j].status = "succeeded"
                   /\ finalizer[j] \in {"created", "sleep"}
                   /\ readers[j] = {}
                   /\ jobs'[j] = jobs[j]
            /\ ArtifactPaths(j) \cap DOMAIN files # {} =>
                   /\ emitted'[j] = emitted[j]
                   /\ jobs'[j].stdout_lines = jobs[j].stdout_lines
                   /\ jobs'[j].stderr_lines = jobs[j].stderr_lines
                   /\ jobs'[j].events = jobs[j].events]_vars

\* a succeeded job with output whose artifact files are written
C15_Witness ==
    \E j \in DOMAIN jobs :
        /\ ArtifactPaths(j) # {}
        /\ ArtifactPaths(j) \subseteq DOMAIN files
        /\ jobs[j].stdout_lines # <<>>

\* --------------------------------------------------------------- patches
\* the response of apply_proposal_diff to diff_text is body: the call has run
\* git apply only if v, the result of validate_diff_paths, is ok, and
\* otherwise has answered with what the validation found
RejectedUnapplied(v, body) ==
    ~v.ok =>
        /\ body.applied = FALSE
        /\ body.errors = v.errors
        /\ body.errors # <<>>
        /\ body.files_touched = v.touched_paths
        /\ UNCHANGED gitVars

\* C16: a call of apply_proposal_diff on a diff that validate_diff_paths
\* does not find ok runs no git apply, leaves the working tree as it was and
\* returns applied = false with the validation errors and the touched paths.
C16_InvalidDiffNeverApplied ==
    [][(resp'.op = "apply" /\ resp'.code = 200) =>
           RejectedUnapplied(
               validate_diff_paths(files[proposal_diff_path(resp'.id)]),
               resp'.body)]_vars

\* a diff with a disallowed path was refused and git apply has not run
C16_Witness ==
    /\ resp.op = "apply"
    /\ resp.code = 200
    /\ resp.body.applied = FALSE
    /\ \E i \in 1..Len(resp.body.errors) :
           resp.body.errors[i].text = "Disallowed path in diff: "
    /\ git_runs = 0

\* C17: every file git apply has created, modified, deleted or renamed on
\* behalf of apply_proposal_diff is AGENTS.md, in any directory, or lies
\* inside .codex/skills/.
C17_GitTouchesOnlyAllowed ==
    \A path \in repo : AllowedPath(path)

\* the paths the claim allows: AGENTS.md itself, a path whose last
\* characters are /AGENTS.md, a path whose first characters are
\* .codex/skills/
ClaimedAllowed(path) ==
    \/ path = Chars("AGENTS.md")
    \/ \E k \in 1..Len(path) : SubSeq(path, k, Len(path)) = Chars("/AGENTS.md")
    \/ \E k \in 1..Len(path) : SubSeq(path, 1, k) = Chars(".codex/skills/")

\* the result v of validate_diff_paths is as C18 says
ValidatedAsClaimed(v) ==
    LET paths == v.touched_paths
        touched == {paths[i] : i \in 1..Len(paths)}
    IN  /\ v.ok <=> (touched # {} /\ \A path \in touched : ClaimedAllowed(path))
        /\ \A i, k \in 1..Len(paths) : i < k => StrLess(paths[i], paths[k])
        /\ touched = {} <=> \E i \in 1..Len(v.errors) : v.errors[i] = NoPathsError
        /\ \A path \in touched :
               ~ClaimedAllowed(path) <=>
                   \E i \in 1..Len(v.errors) : v.errors[i] = DisallowedError(path)
        /\ \A i \in 1..Len(v.errors) :
               \/ v.errors[i] = NoPathsError
               \/ \E path \in touched : v.errors[i] = DisallowedError(path)
        /\ \A i, k \in 1..Len(v.errors) : v.errors[i] = v.errors[k] => i = k

\* C18: validate_diff_paths is ok exactly when it found a path and every
\* path it found is AGENTS.md, ends with /AGENTS.md or begins with
\* .codex/skills/; it reports "No file paths detected in diff." exactly when
\* it found none and "Disallowed path in diff: <path>" exactly for the other
\* paths; touched_paths is sorted, ok or not; GET /codex/proposals/{id}
\* answers with these paths and errors.
C18_ValidationVerdict ==
    \A proposal_id \in ProposalIds :
        proposal_diff_path(proposal_id) \in DOMAIN files =>
            /\ ValidatedAsClaimed(validate_diff_paths(files[proposal_diff_path(proposal_id)]))
            /\ (resp.op = "get_proposal" /\ resp.id = proposal_id) =>
                   ValidatedAsClaimed([ok |-> resp.body.validation_errors = <<>>,
                                       touched_paths |-> resp.body.files_touched,
                                       errors |-> resp.body.validation_errors])

\* a proposal was read whose diff touches an allowed and a disallowed path
C18_Witness ==
    /\ resp.op = "get_proposal"
    /\ resp.code = 200
    /\ Len(resp.body.files_touched) = 2
    /\ Len(resp.body.validation_errors) = 1
    /\ resp.body.validation_errors[1].text = "Disallowed path in diff: "

\* the characters a..b of the line are a whitespace-delimited field
IsField(line, a, b) ==
    /\ a <= b
    /\ \A i \in a..b : line[i] \notin Whitespace
    /\ a = 1 \/ line[a - 1] \in Whitespace
    /\ b = Len(line) \/ line[b + 1] \in Whitespace

\* the second whitespace-delimited field of the line, if it has one
SecondFields(line) ==
    {SubSeq(line, ab[1], ab[2]) :
         ab \in {xy \in (1..Len(line)) \X (1..Len(line)) :
                     /\ IsField(line, xy[1], xy[2])
                     /\ Cardinality({y \in 1..(xy[1] - 1) :
                                         \E z \in y..Len(line) : IsField(line, y, z)}) = 1}}

\* the field without one leading a/ or b/
WithoutOnePrefix(field) ==
    IF Len(field) >= 2 /\ field[2] = "/" /\ field[1] \in {"a", "b"}
    THEN SubSeq(field, 3, Len(field))
    ELSE field

\* the paths C19 says a line contributes
ClaimedPathsOf(line) ==
    IF /\ Len(line) >= 4
       /\ line[4] = " "
       /\ \E sign \in {"+", "-"} : \A i \in 1..3 : line[i] = sign
    THEN {WithoutOnePrefix(field) :
              field \in SecondFields(line)
                            \ {Chars("a/dev/null"), Chars("b/dev/null"), Chars("/dev/null")}}
    ELSE {}

\* touched_paths lists, each once, the paths the lines contribute
ParsedAsClaimed(paths, lines) ==
    /\ {paths[i] : i \in 1..Len(paths)} = UNION {ClaimedPathsOf(lines[i]) : i \in 1..Len(lines)}
    /\ \A i, k \in 1..Len(paths) : paths[i] = paths[k] => i = k

\* the answer of GET /codex/proposals/{id} carries the paths of its diff
AnswerParsedAsClaimed(body) ==
    body.status = "ready" => ParsedAsClaimed(body.files_touched, splitlines(body.diff))

\* C19: touched_paths holds, each once, the paths obtained from every line that
\* begins with "+++ " or "--- ": its second whitespace-delimited field, unless
\* that is a/dev/null, b/dev/null or /dev/null, without one leading a/ or b/;
\* no other line contributes a path; validating the same text again gives the
\* same result.
C19_TouchedPathsParsed ==
    /\ [](\A proposal_id \in ProposalIds :
              /\ proposal_diff_path(proposal_id) \in DOMAIN files =>
                     ParsedAsClaimed(validate_diff_paths(files[proposal_diff_path(proposal_id)]).touched_paths,
                                     splitlines(files[proposal_diff_path(proposal_id)]))
              /\ (resp.op = "get_proposal" /\ resp.id = proposal_id /\ resp.code = 200) =>
                     AnswerParsedAsClaimed(resp.body))
    /\ [][(resp.op = "get_proposal" /\ resp'.op = "get_proposal" /\ resp'.id = resp.id)
              => resp' = resp]_vars

\* a proposal was read whose diff names /dev/null and a/b/x: the answer lists
\* the one path b/x
C19_Witness ==
    /\ resp.op = "get_proposal"
    /\ resp.code = 200
    /\ resp.body.status = "ready"
    /\ resp.body.diff = Chars("--- /dev/null") \o <<"\n">> \o Chars("+++ a/b/x") \o <<"\n">>
    /\ resp.body.files_touched = << <<"b", "/", "x">> >>

\* a step leaves the working tree, the files of the orchestrator and the jobs
\* as they were, and runs no git
NothingChanged == UNCHANGED <<gitVars, files, artifacts, finalizer, jobs>>

\* the answer to POST /codex/proposals/{proposal_id}/apply with this confirm
AppliedAsClaimed(proposal_id, confirm) ==
    /\ resp'.op = "apply"
    /\ resp'.id = proposal_id
    /\ ~confirm => (resp'.code = 400 /\ NothingChanged)
    /\ (confirm /\ proposal_diff_path(proposal_id) \notin DOMAIN files) =>
           (resp'.code = 404 /\ NothingChanged)
    /\ (resp'.code = 200 \/ gitVars' # gitVars) =>
           (confirm /\ proposal_diff_path(proposal_id) \in DOMAIN files)

\* C20: POST /codex/proposals/{proposal_id}/apply reaches apply_proposal_diff,
\* and so git apply, only when the body has confirm = true and proposal.diff
\* exists; without confirm it answers 400, with confirm and no proposal.diff
\* 404, and in both cases nothing is changed; no other step runs git.
C20_ApplyNeedsConfirmAndDiff ==
    [][/\ resp'.op = "apply" =>
              \A confirm \in BOOLEAN, applies \in BOOLEAN :
                  apply_proposal(resp'.id, confirm, applies) => AppliedAsClaimed(resp'.id, confirm)
       /\ gitVars' # gitVars => (resp'.op = "apply" /\ resp'.code = 200)
       /\ (resp'.op = "apply" /\ resp'.code \in {400, 404}) => NothingChanged]_vars

\* an apply without confirm was refused although the proposal.diff is there
\* and names only AGENTS.md
C20_Witness ==
    /\ resp.op = "apply"
    /\ resp.code = 400
    /\ proposal_diff_path(resp.id) \in DOMAIN files
    /\ files[proposal_diff_path(resp.id)] = Chars("+++ b/AGENTS.md") \o <<"\n">>
    /\ repo = {}
    /\ git_runs = 0

\* ------------------------------------------------------- artifact contents
\* the finalizer of the insights job j has ended and had found it succeeded
InsightsFinalized(j) ==
    /\ j \in DOMAIN artifacts
    /\ artifacts[j].kind = "insights"
    /\ finalizer[j] = "done"
    /\ jobs[j].status = "succeeded"

\* what the last-message file of job j holds, parsed: None if the file is
\* missing or blank or is not JSON
ParsedLastMessage(j) ==
    IF jobs[j].last_message_path \notin DOMAIN files THEN None
    ELSE IF strip(files[jobs[j].last_message_path]) = "" THEN None
    ELSE json_loads(strip(files[jobs[j].last_message_path]))

\* the string insights_markdown of a parsed object, if it has one
MarkdownOf(payload) ==
    IF payload = None \/ payload[1].t # "obj" THEN None
    ELSE IF DictGet(payload[1].kv, "insights_markdown") = None THEN None
    ELSE IF DictGet(payload[1].kv, "insights_markdown")[1].t # "str" THEN None
    ELSE Some(DictGet(payload[1].kv, "insights_markdown")[1].s)

\* the JSON artifact is there exactly for a last message that is JSON, and
\* there is no markdown artifact without it
JsonArtifactAsClaimed(j, payload) ==
    /\ artifacts[j].json_path \in DOMAIN files <=> payload # None
    /\ payload # None => files[artifacts[j].json_path] = [json |-> payload[1]]
    /\ artifacts[j].markdown_path \in DOMAIN files => artifacts[j].json_path \in DOMAIN files
    /\ payload = None => artifacts[j].markdown_path \notin DOMAIN files

\* C21 as stated: for a succeeded insights job the JSON artifact is written
\* whenever the last message is valid JSON, and the markdown artifact exactly
\* when the parsed value is an object with a string insights_markdown.
C21_MarkdownForEveryString ==
    \A j \in DOMAIN jobs :
        InsightsFinalized(j) =>
            /\ JsonArtifactAsClaimed(j, ParsedLastMessage(j))
            /\ artifacts[j].markdown_path \in DOMAIN files <=> MarkdownOf(ParsedLastMessage(j)) # None

\* the markdown artifact is there exactly for a string that is not blank, and
\* holds it trimmed with a newline after it
MarkdownArtifactAmended(j, md_text) ==
    /\ artifacts[j].markdown_path \in DOMAIN files <=> (md_text # None /\ strip(md_text[1]) # "")
    /\ artifacts[j].markdown_path \in DOMAIN files =>
           files[artifacts[j].markdown_path] = strip(md_text[1]) \o "\n"

\* C21 amended: for a succeeded insights job the JSON artifact is written
\* exactly when the last-message file holds valid JSON; the markdown artifact
\* is written, trimmed and with a trailing newline, exactly when the parsed
\* value is an object with a string insights_markdown that is not empty after
\* trimming; a missing or blank file or invalid JSON writes neither; and the
\* markdown file never exists without the JSON file.
C21_MarkdownForNonBlankString ==
    \A j \in DOMAIN jobs :
        InsightsFinalized(j) =>
            /\ JsonArtifactAsClaimed(j, ParsedLastMessage(j))
            /\ MarkdownArtifactAmended(j, MarkdownOf(ParsedLastMessage(j)))

\* a succeeded insights job whose last message had " # Tips " as markdown:
\* both artifacts are written
C21_Witness ==
    \E j \in DOMAIN jobs :
        /\ InsightsFinalized(j)
        /\ artifacts[j].json_path \in DOMAIN files
        /\ artifacts[j].markdown_path \in DOMAIN files
        /\ files[artifacts[j].markdown_path] = "# Tips\n"

\* the finalizer of the proposal job j has ended and had found it succeeded
ProposalFinalized(j) ==
    /\ j \in DOMAIN artifacts
    /\ artifacts[j].kind = "proposal"
    /\ finalizer[j] = "done"
    /\ jobs[j].status = "succeeded"

\* the string diff of a parsed object, if it has one
DiffOf(payload) ==
    IF payload = None \/ payload[1].t # "obj" THEN None
    ELSE IF DictGet(payload[1].kv, "diff") = None THEN None
    ELSE IF DictGet(payload[1].kv, "diff")[1].t # "str" THEN None
    ELSE Some(DictGet(payload[1].kv, "diff")[1].s)

\* meta.json of a proposal exists only if its proposal.diff does
MetaOnlyWithDiff ==
    \A j \in DOMAIN artifacts :
        (artifacts[j].kind = "proposal" /\ artifacts[j].meta_path \in DOMAIN files) =>
            artifacts[j].diff_path \in DOMAIN files

\* C22 as stated: for a succeeded proposal job proposal.diff is written if and
\* only if the last message parses to an object with a non-empty string diff;
\* meta.json exists only if proposal.diff exists.
C22_DiffForEveryNonEmptyString ==
    /\ MetaOnlyWithDiff
    /\ \A j \in DOMAIN jobs :
           ProposalFinalized(j) =>
               (artifacts[j].diff_path \in DOMAIN files <=>
                    (DiffOf(ParsedLastMessage(j)) # None /\ DiffOf(ParsedLastMessage(j))[1] # ""))

\* proposal.diff is there exactly for a diff that is not blank, and holds it
\* trimmed with a newline after it, with meta.json beside it
DiffArtifactAmended(j, diff) ==
    /\ artifacts[j].diff_path \in DOMAIN files <=>
           (diff # None /\ StripChars(Chars(diff[1])) # <<>>)
    /\ artifacts[j].diff_path \in DOMAIN files =>
           /\ files[artifacts[j].diff_path] = StripChars(Chars(diff[1])) \o <<"\n">>
           /\ artifacts[j].meta_path \in DOMAIN files

\* C22 amended: for a succeeded proposal job proposal.diff is written if and
\* only if the last message parses to a JSON object with a string diff that is
\* not empty after trimming, and meta.json is written only after
\* proposal.diff; in every reachable state meta.json exists only if
\* proposal.diff exists.
C22_DiffForNonBlankString ==
    /\ MetaOnlyWithDiff
    /\ \A j \in DOMAIN jobs :
           ProposalFinalized(j) => DiffArtifactAmended(j, DiffOf(ParsedLastMessage(j)))

\* a succeeded proposal job whose last message carried a diff: proposal.diff
\* and meta.json are written
C22_Witness ==
    \E j \in DOMAIN jobs :
        /\ ProposalFinalized(j)
        /\ artifacts[j].diff_path \in DOMAIN files
        /\ artifacts[j].meta_path \in DOMAIN files
        /\ files[artifacts[j].diff_path] = Chars("--- a/AGENTS.md\n+++ b/AGENTS.md\n")

\* ------------------------------------------------------------------ modes
\* the transcript as the task text carries it
EmbeddedTranscript(transcript) == "\n\nConversation transcript:\n" \o transcript

\* the task text of an insights run with and without a transcript in it
InsightsTaskWith(embedded, prompt) ==
    "You are generating *insights* to help improve this repository's Codex skills and AGENTS.md.\n"
    \o "Return ONLY a JSON object matching the provided output schema."
    \o embedded \o "\n\nUser prompt:\n" \o strip(prompt) \o "\n"

\* the task text of a proposal run without a prompt, with and without a
\* transcript in it
ProposalTaskWith(embedded, insight) ==
    "You are proposing changes to make Codex more effective on this repository.\n"
    \o "You MUST output a unified diff in the diff field of the JSON schema.\n"
    \o "Allowed paths: .codex/skills/** and AGENTS.md only.\n"
    \o "Return ONLY a JSON object matching the provided output schema.\n"
    \o "\nInsights (JSON):\n" \o insight \o embedded \o "\n"

\* the argv of a run in this mode
ArgvAsClaimed(command, session_id, mode) ==
    IF mode = "resume"
    THEN /\ \E i \in 1..(Len(command) - 1) : command[i] = "exec" /\ command[i + 1] = "resume"
         /\ SubSeq(command, Len(command) - 1, Len(command)) = <<session_id, "-">>
    ELSE /\ \A i \in 1..Len(command) : command[i] # "resume"
         /\ command[Len(command)] = "-"
         /\ command[Len(command) - 1] # session_id

\* the transcript is in the task text of a run in fork mode, if it is not
\* empty, and in no other
EmbeddedAsClaimed(task, with, without, transcript, mode) ==
    /\ with # without
    /\ task = (IF mode = "fork" /\ transcript # "" THEN with ELSE without)

Given(value) == value # None /\ value # Some("")
Option(flag, value) == IF Given(value) THEN <<flag, value[1]>> ELSE <<>>

\* a flag, if it is asked for
Switch(flag, on) == IF on THEN <<flag>> ELSE <<>>

\* -c and the override, for each override in turn
RECURSIVE Overrides(_)
Overrides(config_overrides) ==
    IF config_overrides = <<>> THEN <<>>
    ELSE <<"-c", Head(config_overrides)>> \o Overrides(Tail(config_overrides))

\* the argv C24 describes for the arguments req of create_job
ClaimedArgv(req, workdir, last_message_path) ==
    <<"codex", "--no-alt-screen", "--ask-for-approval", req.approval, "--sandbox", req.sandbox>>
    \o Option("--model", req.model)
    \o Switch("--oss", req.oss)
    \o Option("--local-provider", req.local_provider)
    \o Option("--profile", req.profile)
    \o Overrides(req.config_overrides)
    \o <<"exec">> \o Switch("resume", Given(req.resume_session_id))
    \o <<"--json", "-C", workdir, "-o", last_message_path>>
    \o Option("--output-schema", req.output_schema_path)
    \o Switch("--skip-git-repo-check", req.skip_git_repo_check)
    \o (IF Given(req.resume_session_id) THEN req.resume_session_id ELSE <<>>)
    \o <<"-">>

\* C24: the argv of a job is codex --no-alt-screen --ask-for-approval
\* <approval> --sandbox <sandbox>; then --model, --oss, --local-provider,
\* --profile and one -c per override, each only when given; then exec resume
\* or exec, with --json -C <workdir> -o <last_message_path>; then
\* --output-schema and --skip-git-repo-check when asked for; then the session
\* id and - for a resume and - alone otherwise.
C24_ArgvInOrder ==
    resp.op = "create_job" =>
        jobs[resp.id].command =
            ClaimedArgv(resp.req, _resolve_workdir(RepoRoot, resp.req.workdir),
                        jobs[resp.id].last_message_path)

\* a resumed job created with every option: the argv carries all of them,
\* two overrides included
C24_Witness ==
    /\ resp.op = "create_job"
    /\ jobs[resp.id].command =
           <<"codex", "--no-alt-screen", "--ask-for-approval", "never",
             "--sandbox", "workspace-write", "--model", "o3", "--oss",
             "--local-provider", "ollama", "--profile", "dev",
             "-c", "a=1", "-c", "b=2",
             "exec", "resume", "--json", "-C", "/repo/sub",
             "-o", "/home/.codex/jobs/1/last_message.txt",
             "--output-schema", "/s.json", "--skip-git-repo-check", "s1", "-">>

\* --------------------------------------------------------------- run meta
\* runs/<job_id>.json of job j is there and names the job and its kind
RunMetaWritten(j) ==
    /\ run_meta_path(j) \in DOMAIN files
    /\ files[run_meta_path(j)].json.job_id = j
    /\ files[run_meta_path(j)].json.kind = artifacts[j].kind
    /\ files[run_meta_path(j)].json.command = jobs[j].command

\* C25: for every job started by start_insights_run or start_proposal_run the
\* artifact is registered and runs/<job_id>.json is written when the call
\* returns and before the finalizer takes its first step; the finalizer
\* finds its artifact; the file is there before any artifact file of the job,
\* stays, and is there for jobs that fail or are canceled too.
C25_RunMetaBeforeFinalizer ==
    /\ [](/\ resp.op \in {"insights_run", "proposal_run"} =>
                 (resp.id \in DOMAIN artifacts /\ artifacts[resp.id] = resp.artifact
                  /\ finalizer[resp.id] = "created")
          /\ \A j \in JobIds :
                 /\ finalizer[j] # "none" => (j \in DOMAIN artifacts /\ j \in DOMAIN jobs)
                 /\ j \in DOMAIN artifacts => (finalizer[j] # "none" /\ RunMetaWritten(j))
                 /\ ArtifactPaths(j) \cap DOMAIN files # {} => RunMetaWritten(j))
    /\ [][\A j \in JobIds :
              /\ finalizer'[j] # finalizer[j] =>
                     (j \in DOMAIN artifacts' /\ run_meta_path(j) \in DOMAIN files')
              /\ run_meta_path(j) \in DOMAIN files =>
                     (run_meta_path(j) \in DOMAIN files'
                      /\ files'[run_meta_path(j)] = files[run_meta_path(j)])]_vars

\* a job of a run that was canceled: its finalizer has ended, it has no
\* artifact file, and its runs/<job_id>.json is there
C25_Witness ==
    \E j \in DOMAIN artifacts :
        /\ jobs[j].status = "canceled"
        /\ finalizer[j] = "done"
        /\ ArtifactPaths(j) \cap DOMAIN files = {}
        /\ RunMetaWritten(j)

\* --------------------------------------------------------------- sessions
\* the path cwd, canonicalized, is root or lies below it
IsUnder(cwd, root) ==
    /\ Len(resolve(PathParts(root))) <= Len(resolve(PathParts(cwd)))
    /\ \A i \in 1..Len(resolve(PathParts(root))) :
           resolve(PathParts(cwd))[i] = resolve(PathParts(root))[i]

\* the ids of the sessions whose rollout file has a session_meta with an id
SessionsOnDisk ==
    {DictGet(_read_jsonl_first_meta(path)[1], "id")[1].s :
         path \in {f \in DOMAIN files : /\ _read_jsonl_first_meta(f) # None
                                        /\ IsStr(DictGet(_read_jsonl_first_meta(f)[1], "id"))}}

\* C26: with include_all_repos false and a repo_root, list_sessions returns a
\* session only when its cwd, canonicalized, is repo_root or lies below it, so
\* that a session without cwd or with a cwd elsewhere is left out; with
\* include_all_repos true the sessions of every repository are returned.
C26_OnlySessionsOfRepo ==
    resp.op = "list_sessions" =>
        /\ (~resp.include_all_repos /\ resp.repo_root # None) =>
               \A i \in 1..Len(resp.ret) :
                   /\ resp.ret[i].cwd # None
                   /\ IsUnder(resp.ret[i].cwd[1], resp.repo_root[1])
        /\ (resp.include_all_repos /\ resp.limit > Len(resp.ret)) =>
               {resp.ret[i].session_id : i \in 1..Len(resp.ret)} = SessionsOnDisk

\* one summary is no later in the order of C27 than another: it has a
\* started_at that is not less, or the other has none
NoLater(s, t) ==
    \/ t.started_at = None
    \/ s.started_at # None /\ s.started_at[1] >= t.started_at[1]

\* the summaries of the files that list_sessions does not skip
Eligible(repo_root, include_all_repos) ==
    {SessionSummary(path, repo_root, include_all_repos)[1] :
         path \in {f \in DOMAIN files : SessionSummary(f, repo_root, include_all_repos) # None}}

\* ret holds limit of the eligible summaries, or all if there are fewer, in
\* the order of C27, and none left out comes before one of ret
ListedAsClaimed(ret, eligible, limit) ==
    /\ \A i, k \in 1..Len(ret) : i < k => NoLater(ret[i], ret[k])
    /\ \A i, k \in 1..Len(ret) : ret[i].rollout_path = ret[k].rollout_path => i = k
    /\ \A i \in 1..Len(ret) : ret[i] \in eligible
    /\ Len(ret) = (IF limit < Cardinality(eligible) THEN limit ELSE Cardinality(eligible))
    /\ \A s \in eligible :
           (\A i \in 1..Len(ret) : ret[i] # s) => \A i \in 1..Len(ret) : NoLater(ret[i], s)

\* C27: list_sessions returns the sessions by started_at descending, every
\* session without a timestamp after every session with one, cut to the first
\* limit entries of that order; a second call on the unchanged journal
\* returns the same list.
C27_NewestFirstThenUndated ==
    /\ [](resp.op = "list_sessions" =>
              ListedAsClaimed(resp.ret, Eligible(resp.repo_root, resp.include_all_repos), resp.limit))
    /\ [][(/\ resp.op = "list_sessions"
           /\ resp'.op = "list_sessions"
           /\ resp'.repo_root = resp.repo_root
           /\ resp'.include_all_repos = resp.include_all_repos
           /\ resp'.limit = resp.limit) => resp'.ret = resp.ret]_vars

\* a session started before 1970 is listed before a session without a
\* timestamp
C27_Witness ==
    /\ resp.op = "list_sessions"
    /\ Len(resp.ret) = 2
    /\ resp.ret[1].started_at = Some(-1)
    /\ resp.ret[2].started_at = None

\* ------------------------------------------------------ claims: messages
\* the line holds a message that is kept for these roles
KeptLine(line, roles) ==
    /\ strip(line) # ""
    /\ json_loads(strip(line)) # None
    /\ KeptMessage(json_loads(strip(line)), roles)

\* the kept messages of the lines, in file order
KeptMessagesOf(lines, session_id, roles) ==
    LET kept == SelectSeq(lines, LAMBDA line : KeptLine(line, roles))
    IN  [i \in 1..Len(kept) |-> ConversationMessage(session_id, json_loads(strip(kept[i])))]

\* messages without a timestamp first, then ascending by timestamp, ties in
\* the order of the file
ClaimedMessages(lines, session_id, roles) ==
    LET kept == KeptMessagesOf(lines, session_id, roles)
    IN  StableSort(kept,
                   [i \in 1..Len(kept) |->
                       IF kept[i].timestamp = None THEN <<0, 0>> ELSE <<1, kept[i].timestamp[1]>>],
                   FALSE)

\* C28: for every content of the rollout file read_session_messages returns
\* the kept messages (response_item messages whose role is in include_roles
\* and whose flattened text is not empty) sorted ascending by timestamp, the
\* messages without a timestamp first and ties in file order
C28_KeptMessagesSorted ==
    (resp.op = "read_session_messages" /\ resp.session_id = "a") =>
        resp.ret = ClaimedMessages(files[RolloutPaths[1]], "a", RolesOrDefault(resp.include_roles))

\* ------------------------------------------------- claims: prompt history
\* the ts of a record is numeric: a number, or with numerals a numeral in a
\* string as well
NumericTs(ts, numerals) ==
    /\ ts # None
    /\ \/ ts[1].t = "num"
       \/ numerals /\ ts[1].t = "str" /\ FloatOfStr(ts[1].s) # None

\* the line is a valid line: an object with a string session_id, a string
\* text and a numeric ts
ValidLine(line, numerals) ==
    LET obj == json_loads(strip(line))
    IN  /\ obj # None
        /\ obj[1].t = "obj"
        /\ IsStr(DictGet(obj[1].kv, "session_id"))
        /\ IsStr(DictGet(obj[1].kv, "text"))
        /\ NumericTs(DictGet(obj[1].kv, "ts"), numerals)

\* the entry of a valid line
EntryOfLine(line) ==
    LET obj == json_loads(strip(line))
        ts == DictGet(obj[1].kv, "ts")[1]
    IN  [session_id |-> DictGet(obj[1].kv, "session_id")[1].s,
         ts |-> IF ts.t = "num" THEN ts.n ELSE FloatOfStr(ts.s)[1],
         text |-> DictGet(obj[1].kv, "text")[1].s]

\* the entries of the first limit valid lines of the file
AcceptedAsClaimed(lines, limit, numerals) ==
    LET valid == SelectSeq(lines, LAMBDA line : ValidLine(line, numerals))
    IN  [i \in 1..(IF limit < Len(valid) THEN limit ELSE Len(valid)) |-> EntryOfLine(valid[i])]

\* C29: read_prompt_history skips every invalid line (not JSON, not an
\* object, without a string session_id, a string text or a numeric ts) and
\* still returns every valid entry that follows it, stopping only after limit
\* entries have been accepted; a numeral in a string may count as numeric or
\* not
C29_InvalidLinesSkipped ==
    (resp.op = "read_prompt_history" /\ HistoryPath \in DOMAIN files) =>
        \E numerals \in BOOLEAN :
            LET claimed == AcceptedAsClaimed(files[HistoryPath], resp.limit, numerals)
            IN  /\ Len(resp.ret) = Len(claimed)
                /\ {resp.ret[i] : i \in 1..Len(resp.ret)} = {claimed[i] : i \in 1..Len(claimed)}

\* C30: for every content of history.jsonl the list returned by
\* read_prompt_history is sorted ascending by ts
C30_HistoryAscending ==
    resp.op = "read_prompt_history" =>
        \A i, k \in 1..Len(resp.ret) : i < k => resp.ret[i].ts <= resp.ret[k].ts

\* ---------------------------------------------- claims: malformed journal
\* C31: list_sessions, find_rollout_by_session_id, read_session_messages and
\* read_prompt_history never raise on a malformed journal: an undecodable
\* line or a line that is not JSON aborts only the file being read, and the
\* other rollout files are still processed, so that list_sessions for all
\* repositories lists every session whose file can be read
C31_ReadersNeverRaise ==
    /\ resp.op \in {"list_sessions", "read_session_messages", "read_prompt_history"} => ~resp.raised
    /\ (resp.op = "list_sessions" /\ resp.include_all_repos) =>
           {resp.ret[i].session_id : i \in 1..Len(resp.ret)} = SessionsOnDisk

\* ----------------------------------------------------- claims: transcript
\* C32: for every message list and every max_chars >= 0 the string returned
\* by render_transcript has at most max_chars characters; with max_chars = 0
\* it is the empty string
C32_TranscriptWithinMaxChars ==
    resp.op = "render_transcript" =>
        /\ Len(resp.ret) <= resp.max_chars
        /\ resp.max_chars = 0 => resp.ret = <<>>

\* the block of a message: [role], [phase] when there is a phase, a line break,
\* the text without the whitespace around it, a line break
BlockOf(msg) ==
    <<"[">> \o Chars(msg.role) \o <<"]">>
    \o (IF msg.phase \in {None, Some("")} THEN <<>> ELSE <<"[">> \o Chars(msg.phase[1]) \o <<"]">>)
    \o <<"\n">> \o StripChars(Chars(msg.text)) \o <<"\n">>

\* the blocks of the first k messages, an empty line between two blocks
RECURSIVE BlocksOf(_, _)
BlocksOf(messages, k) ==
    IF k = 0 THEN <<>>
    ELSE IF k = 1 THEN BlockOf(messages[1])
    ELSE BlocksOf(messages, k - 1) \o <<"\n">> \o BlockOf(messages[k])

\* the size of the blocks of the first k messages
RECURSIVE SizeOf(_, _)
SizeOf(messages, k) ==
    IF k = 0 THEN 0 ELSE SizeOf(messages, k - 1) + Len(BlockOf(messages[k]))

\* ret renders the first k messages and no block is cut
RendersPrefix(ret, messages, k) == ret = StripChars(BlocksOf(messages, k))

C34_NoPipeDeadlock ==
    \A j \in JobIds :
        [](j \in DOMAIN jobs => <>(j \in DOMAIN jobs /\ jobs[j].status \in Terminal))

\* ------------------------------------------------------- claims: snapshot
\* C35: what a caller received from get_job is a snapshot (the object its
\* reference denotes stays as it was seen): the supervisor
\* steps, the appends to the tails and the cancel_job calls that follow do
\* not change it, tails included.
C35_GetJobIsSnapshot ==
    [][(resp.op = "get_job" /\ resp.ret # None) => jobs'[resp.ret[1].ref] = resp.seen[1]]_vars

\* -------------------------------------------------------- claims: task id
\* the task ids of the tree of value in the order of the walk: at an object
\* the strings under task_id, taskId, taskID that count, then those of its
\* values in iteration order; at an array those of its elements in order.
\* With stripped, a string counts unless it is blank and is taken stripped;
\* without, it counts unless it is empty and is taken as it is
RECURSIVE HitsOf(_, _)
HitsOf(value, stripped) ==
    LET RECURSIVE Concat(_, _)
        Concat(values, i) ==
            IF i > Len(values) THEN <<>>
            ELSE HitsOf(values[i], stripped) \o Concat(values, i + 1)
        direct(kv, key) ==
            LET v == DictGet(kv, key)
            IN  IF v = None \/ v[1].t # "str" THEN <<>>
                ELSE IF stripped
                THEN (IF strip(v[1].s) = "" THEN <<>> ELSE <<strip(v[1].s)>>)
                ELSE (IF v[1].s = "" THEN <<>> ELSE <<v[1].s>>)
    IN  IF value.t = "obj"
        THEN direct(value.kv, "task_id") \o direct(value.kv, "taskId") \o direct(value.kv, "taskID")
             \o Concat([i \in 1..Len(value.kv) |-> value.kv[i].v], 1)
        ELSE IF value.t = "arr" THEN Concat(value.xs, 1)
        ELSE <<>>

\* the first hit of the walk, or None
FirstHit(value, stripped) ==
    IF HitsOf(value, stripped) = <<>> THEN None ELSE Some(HitsOf(value, stripped)[1])

\* C36: _extract_task_id walks the event depth first: at each object the
\* keys task_id, taskId, taskID are tried in that order and the first
\* non-empty string value is returned before any nested value is examined;
\* otherwise the values are searched in iteration order and arrays element
\* by element; the first hit wins, and without a hit the result is None.
C36_FirstNonEmptyString ==
    resp.op = "_extract_task_id" => resp.ret = FirstHit(resp.event, FALSE)

\* C36 amended: as C36, with the first string that is not blank, returned
\* stripped of its surrounding whitespace.
C36_FirstNonBlankStripped ==
    resp.op = "_extract_task_id" => resp.ret = FirstHit(resp.event, TRUE)

\* a blank task_id was passed over, and the taskID of the object itself won
\* over the task id nested in the member before it
C36_Witness ==
    /\ resp.op = "_extract_task_id"
    /\ resp.event = JObj(<<KV("msg", JObj(<<KV("taskID", JStr("t1"))>>)),
                           KV("taskID", JStr(" t2 "))>>)
    /\ resp.ret = Some("t2")

\* ------------------------------------------------------- claims: workflow
\* job j is a run of the given kind that succeeded and whose finalizer has
\* written the file at path
FinalizedRun(j, kind, path) ==
    /\ j \in DOMAIN artifacts
    /\ artifacts[j].kind = kind
    /\ jobs[j].status = "succeeded"
    /\ finalizer[j] = "done"
    /\ path \in DOMAIN files

\* C37: with this service the only writer under .codex-orchestrator,
\* POST /codex/proposals/run creates a proposal job only after an insights
\* job of the session named in the request has succeeded and its finalizer
\* has written the insights JSON, and git apply runs for a proposal only
\* after the job of that proposal has succeeded and its finalizer has
\* written proposal.diff.
C37_PhasesInOrder ==
    [][/\ (resp'.op = "proposal_run" /\ DOMAIN jobs' # DOMAIN jobs) =>
              \E j \in DOMAIN jobs :
                  /\ FinalizedRun(j, "insights", artifacts[j].json_path)
                  /\ artifacts[j].session_id = resp'.artifact.session_id
       /\ git_runs' # git_runs =>
              \E j \in DOMAIN jobs :
                  /\ FinalizedRun(j, "proposal", artifacts[j].diff_path)
                  /\ artifacts[j].proposal_id = resp'.id]_vars

\* -------------------------------------------------- claims: job fields
\* C38: in every reachable state, for every job: started_at is null exactly
\* while the status is queued; the process handle is set only when the
\* status is not queued; returncode and finished_at are null together; and
\* finished_at is set only when the status is succeeded, failed or canceled.
C38_FieldsConsistent ==
    \A j \in DOMAIN jobs :
        /\ jobs[j].started_at = None <=> jobs[j].status = "queued"
        /\ jobs[j]._process # None => jobs[j].status # "queued"
        /\ jobs[j].returncode = None <=> jobs[j].finished_at = None
        /\ jobs[j].finished_at # None => jobs[j].status \in Terminal

\* one job was canceled while its child ran and has no returncode yet, and
\* the exit of another has been recorded
C38_Witness ==
    \E j, k \in DOMAIN jobs :
        /\ jobs[j].status = "canceled"
        /\ jobs[j].started_at # None
        /\ jobs[j].finished_at = None
        /\ jobs[k].status = "failed"
        /\ jobs[k].finished_at # None

\* ------------------------------------------------------ claims: cancel once
\* C39: for each job at most one cancel_job call ever returns true, however
\* the calls interleave with each other and with the supervisor: SIGTERM is
\* sent to the child of a job at most once, by that call, and never to a job
\* whose exit the supervisor has recorded.
C39_CancelOnce ==
    [][/\ \A j \in JobIds :
              signals'[j] # signals[j] =>
                  /\ signals[j] = 0
                  /\ signals'[j] = 1
                  /\ resp'.op = "cancel" /\ resp'.ok /\ resp'.id = j
                  /\ jobs[j].finished_at = None
                  /\ pc[j] # "done"
       /\ (resp'.op = "cancel" /\ resp'.ok) =>
              /\ signals[resp'.id] = 0
              /\ signals'[resp'.id] = 1]_vars

\* a cancel_job call on a job that was canceled before and whose exit has
\* been recorded since returned false
C39_Witness ==
    /\ resp.op = "cancel"
    /\ ~resp.ok
    /\ resp.id \in DOMAIN jobs
    /\ signals[resp.id] = 1
    /\ jobs[resp.id].finished_at # None
    /\ pc[resp.id] = "done"

\* ------------------------------------------------------ claims: termination
\* C40: under fair scheduling every job that create_job registered comes to
\* succeeded, failed or canceled (its child, once spawned, closes its streams
\* and exits), and a finalizer that is polling stops polling once the child
\* of its job has exited or the spawn has failed.
C40_EveryJobEnds ==
    \A j \in JobIds :
        /\ [](j \in DOMAIN jobs =>
                <>(j \in DOMAIN jobs /\ jobs[j].status \in Terminal))
        /\ []((/\ finalizer[j] \in {"created", "sleep"}
               /\ (child[j] = "exited" \/ pc[j] = "raised")) =>
                <>(finalizer[j] \notin {"created", "sleep"}))

====
